---- MODULE Spec2Model ----
(***************************************************************************)
(* Roboot: dependency container with circular references and async boot   *)
(* and dispose phases (src/roboot.ts).                                     *)
(*                                                                         *)
(* The container is modelled together with the JavaScript run-to-          *)
(* completion semantics it relies on: a synchronous control stack (ctl),   *)
(* a FIFO microtask queue (queue) and a table of promises (proms).  While  *)
(* ctl is non-empty only the top frame can step; microtasks run only when  *)
(* the host's synchronous code has ended its turn.                         *)
(***************************************************************************)
EXTENDS Integers, Sequences, FiniteSets, TLC

\* ------------------------------------------------------------------ bounds
MaxDepth == 5        \* nested constructor frames before the engine raises RangeError
MaxBoot == 2         \* boot() calls issued by the host
MaxDispose == 2      \* dispose() calls issued by the host
MaxBind == 2         \* bind() calls issued by the host
MaxHostUse == 1      \* direct container.use() calls issued by the host
MaxApply == 1        \* apply() calls issued by the host
MaxHostCalls == 3    \* host calls on one container, all operations together

\* ------------------------------------------------------- provider classes
\* Provider identities (constructor references).  A2 is declared
\* "class A2 extends A" and so inherits A's field initialisers and hooks;
\* V is a class returned by valueProvider(value); N is a provider whose
\* provide() throws; W is a service whose constructor calls booted() and
\* disposed().
Classes == {"Root", "A", "B", "A2", "D", "V", "N", "W"}

NoClass == ""        \* the absent optional Dependent argument
Undefined == 0       \* JavaScript undefined; heap references are 1, 2, ...
ExtValue == 1        \* the object handed to valueProvider(value)

\* Hook scripts: the statements of an async boot()/dispose() method.
Op(o, c, k) == [op |-> o, cls |-> c, n |-> k]
Push(k) == Op("push", NoClass, k)
Yield == Op("yield", NoClass, 0)              \* await Promise.resolve()
AwaitBooted(c) == Op("booted", c, 0)          \* await this.booted(c)
AwaitDisposed(c) == Op("disposed", c, 0)      \* await this.disposed(c)
AwaitIO == Op("io", NoClass, 0)               \* await a timer / socket promise
Throw(e) == Op("throw", e, 0)                 \* throw new Error(e)
UseIn(c) == Op("use", c, 0)                   \* this.use(c) inside a hook

\* A field initialiser that copies the field declared just before it:
\*   class B extends Service { a = this.use(A); again = this.a }
Again == "again"

NoHook == [present |-> FALSE, async |-> TRUE, ops |-> << >>]
Hook(ops) == [present |-> TRUE, async |-> TRUE, ops |-> ops]       \* async boot() { ops }
SyncHook(ops) == [present |-> TRUE, async |-> FALSE, ops |-> ops]  \* boot() { ops }

NoHooks == [c \in Classes |-> NoHook]

\* Field initialisers that follow the use() fields of a class:
\*   class W extends Service { ready = this.booted(D); gone = this.disposed(D) }
CtorCalls ==
  [c \in Classes |-> IF c = "W" THEN <<AwaitBooted("D"), AwaitDisposed("D")>> ELSE << >>]

\* A program is the set of class declarations the container is used with.
Program(f, pv, bh, dh) ==
  [fields |-> f, provide |-> pv, boot |-> bh, dispose |-> dh]

SelfProvide ==
  [c \in Classes |-> CASE c = "V" -> "value" [] c = "N" -> "throw" [] OTHER -> "self"]

\* Every small dependency graph over Root, A, B (A2 inherits A's fields).
RootFields == { <<"A">>, <<"A", "B">>, <<"B", "A">> }
AFields == { << >>, <<"B">>, <<"A">>, <<"A", "A">>, <<"Root">>, <<"B", "B">>, <<"V">>, <<"N">> }
BFields == { << >>, <<"A">>, <<"Root">> }

GraphFields(fr, fa, fb) ==
  [c \in Classes |->
     CASE c = "Root" -> fr
       [] c = "A" -> fa
       [] c = "A2" -> fa
       [] c = "B" -> fb
       [] OTHER -> << >>]

\* Graph programs: every service has "async boot() {}" reading nothing.
GraphHooks == [c \in Classes |-> IF c \in {"A", "A2", "B"} THEN Hook(<< >>) ELSE NoHook]

GraphPrograms ==
  { Program(GraphFields(fr, fa, fb), SelfProvide, GraphHooks, NoHooks) :
      fr \in RootFields, fa \in AFields, fb \in BFields }

\* The "boot dependency order" / "dispose dependency order" tests:
\* Root = TestService, D = Dependency.
OrderFields == [c \in Classes |-> IF c = "Root" THEN <<"D">> ELSE << >>]
DepSteps == Hook(<<Push(1), Yield, Yield, Push(3)>>)
RootBootSteps == Hook(<<Push(2), AwaitBooted("D"), Push(4)>>)
RootDisposeSteps == Hook(<<Push(2), AwaitDisposed("D"), Push(4)>>)

BootOrderProgram ==
  Program(OrderFields, SelfProvide,
          [c \in Classes |-> CASE c = "D" -> DepSteps
                               [] c = "Root" -> RootBootSteps
                               [] OTHER -> NoHook],
          NoHooks)

DisposeOrderProgram ==
  Program(OrderFields, SelfProvide, NoHooks,
          [c \in Classes |-> CASE c = "D" -> DepSteps
                               [] c = "Root" -> RootDisposeSteps
                               [] OTHER -> NoHook])

\* The README's Logger (D) and Counter (Root): hooks that wait for timers.
TimerProgram ==
  Program(OrderFields, SelfProvide,
          [c \in Classes |-> CASE c = "D" -> Hook(<<AwaitIO, Push(1)>>)
                               [] c = "Root" -> Hook(<<AwaitBooted("D"), Push(2)>>)
                               [] OTHER -> NoHook],
          [c \in Classes |-> CASE c = "D" -> Hook(<<AwaitDisposed("Root"), Push(4)>>)
                               [] c = "Root" -> Hook(<<AwaitIO, Push(3)>>)
                               [] OTHER -> NoHook])

\* A dependency whose boot hook fails while the root waits for it; the
\* dispose hooks are those of the dispose-order test.
FailProgram ==
  Program(OrderFields, SelfProvide,
          [c \in Classes |-> CASE c = "D" -> Hook(<<Push(1), Yield, Throw("E1")>>)
                               [] c = "Root" -> Hook(<<Push(2), AwaitBooted("D"), Push(4)>>)
                               [] OTHER -> NoHook],
          [c \in Classes |-> CASE c = "D" -> DepSteps
                               [] c = "Root" -> RootDisposeSteps
                               [] OTHER -> NoHook])

\* The dispose-order test with a dependency whose dispose hook fails.
FailDisposeProgram ==
  Program(OrderFields, SelfProvide, NoHooks,
          [c \in Classes |-> CASE c = "D" -> Hook(<<Push(1), Yield, Throw("E1")>>)
                               [] c = "Root" -> RootDisposeSteps
                               [] OTHER -> NoHook])

\* Two failing hooks in each phase: the dependency (first in the cache) fails
\* after one suspension, the root fails at once.
RaceHooks ==
  [c \in Classes |-> CASE c = "D" -> Hook(<<Yield, Throw("E2")>>)
                       [] c = "Root" -> Hook(<<Throw("E1")>>)
                       [] OTHER -> NoHook]
RaceProgram == Program(OrderFields, SelfProvide, RaceHooks, RaceHooks)

\* A failing hook beside a sibling that is still waiting for a timer.
SiblingHooks ==
  [c \in Classes |-> CASE c = "D" -> Hook(<<Throw("E1")>>)
                       [] c = "Root" -> Hook(<<Push(1), AwaitIO, Push(2)>>)
                       [] OTHER -> NoHook]
SiblingProgram == Program(OrderFields, SelfProvide, SiblingHooks, SiblingHooks)

\* Misplaced waits: the root uses W (whose constructor calls booted and
\* disposed) and A; hooks wait for the other phase and for an unused class.
PhaseFields ==
  [c \in Classes |-> IF c = "Root" THEN <<"W", "A">> ELSE << >>]
PhaseProgram ==
  Program(PhaseFields, SelfProvide,
          [c \in Classes |-> CASE c = "Root" -> Hook(<<AwaitDisposed("W"), Push(1)>>)
                               [] c = "W" -> Hook(<<AwaitBooted("A"), AwaitBooted("B")>>)
                               [] OTHER -> NoHook],
          [c \in Classes |-> CASE c \in {"A", "A2"} -> Hook(<<AwaitBooted("A"), Push(2)>>)
                               [] c = "W" -> Hook(<<AwaitDisposed("Root"), AwaitDisposed("B")>>)
                               [] OTHER -> NoHook])

\* Waits that form cycles: A waits for B and B for A, the root waits for
\* itself; D stands beside the cycles with the boot hook dHook.
CycleFields ==
  [c \in Classes |-> IF c = "Root" THEN <<"A", "B", "D">> ELSE << >>]
CycleClasses == {"A", "A2", "B", "Root"}
CycleProgram(dHook) ==
  Program(CycleFields, SelfProvide,
          [c \in Classes |-> CASE c \in {"A", "A2"} -> Hook(<<AwaitBooted("B"), Push(1)>>)
                               [] c = "B" -> Hook(<<AwaitBooted("A"), Push(2)>>)
                               [] c = "Root" -> Hook(<<Push(3), AwaitBooted("Root"), Push(4)>>)
                               [] c = "D" -> dHook
                               [] OTHER -> NoHook],
          NoHooks)
CyclePrograms == { CycleProgram(h) : h \in {NoHook, Hook(<<Yield, Throw("E1")>>)} }

\* The "calling use returns instance provided by service class" and
\* "provider for static value" tests, with a second requester of the value:
\* Root = TestService, D = Dependency, V = valueProvider(value).
ValueFields ==
  [c \in Classes |-> CASE c = "Root" -> <<"D", "V", "A">>
                       [] c \in {"A", "A2"} -> <<"V">>
                       [] OTHER -> << >>]
ValueProgram == Program(ValueFields, SelfProvide, NoHooks, NoHooks)

\* A dependency first resolved inside a boot hook: the root's hook calls
\* this.use(A) and waits for A; A and B use each other.
LazyFields ==
  [c \in Classes |-> CASE c = "Root" -> <<"D">>
                       [] c \in {"A", "A2"} -> <<"B">>
                       [] c = "B" -> <<"A">>
                       [] OTHER -> << >>]
LazyProgram ==
  Program(LazyFields, SelfProvide,
          [c \in Classes |-> CASE c = "Root" -> Hook(<<UseIn("A"), AwaitBooted("A"), Push(1)>>)
                               [] c \in {"A", "A2"} -> Hook(<<Push(2)>>)
                               [] OTHER -> NoHook],
          [c \in Classes |-> CASE c \in {"A", "A2"} -> Hook(<<Push(3)>>)
                               [] OTHER -> NoHook])

\* Two provider classes whose provide() returns the same object, each with
\* its own hooks:  class V extends Provider { provide() { return shared } }
\* and  class D extends Provider { provide() { return shared } }.
CollideFields ==
  [c \in Classes |-> IF c = "Root" THEN <<"V", "D">> ELSE << >>]
CollideProvide ==
  [c \in Classes |-> IF c = "D" THEN "value" ELSE SelfProvide[c]]
CollideProgram ==
  Program(CollideFields, CollideProvide,
          [c \in Classes |-> CASE c = "V" -> Hook(<<Push(1)>>)
                               [] c = "D" -> Hook(<<Push(2)>>)
                               [] OTHER -> NoHook],
          [c \in Classes |-> CASE c = "V" -> Hook(<<Push(3)>>)
                               [] c = "D" -> Hook(<<Push(4)>>)
                               [] OTHER -> NoHook])

\* A cycle with a dependency that cannot be constructed: B uses A, then an
\* abstract provider N whose provide() throws.
ThrowCycleProgram ==
  Program(GraphFields(<<"A">>, <<"B">>, <<"A", "N">>), SelfProvide, GraphHooks, NoHooks)

\* B keeps the A it asked for in two fields.
AliasProgram ==
  Program(GraphFields(<<"A">>, <<"B">>, <<"A", Again>>), SelfProvide, GraphHooks, NoHooks)

Programs ==
  GraphPrograms \cup {BootOrderProgram, DisposeOrderProgram, TimerProgram, FailProgram,
                      RaceProgram, SiblingProgram, PhaseProgram, ValueProgram,
                      LazyProgram, CollideProgram, AliasProgram, FailDisposeProgram,
                      ThrowCycleProgram}
    \cup CyclePrograms

\* ------------------------------------------------------------ Map helpers
\* A JavaScript Map is a sequence of entries in insertion order; set() on
\* an existing key keeps the entry's position.
Entry(k, v) == [k |-> k, v |-> v]
MapHas(m, k) == \E i \in 1..Len(m) : m[i].k = k
MapGet(m, k) == IF MapHas(m, k) THEN m[CHOOSE i \in 1..Len(m) : m[i].k = k].v ELSE Undefined
MapSet(m, k, v) ==
  IF MapHas(m, k)
    THEN [i \in 1..Len(m) |-> IF m[i].k = k THEN Entry(k, v) ELSE m[i]]
    ELSE Append(m, Entry(k, v))
MapKeys(m) == { m[i].k : i \in 1..Len(m) }

Contains(s, x) == \E i \in 1..Len(s) : s[i] = x
Front(s) == SubSeq(s, 1, Len(s) - 1)

\* ------------------------------------------------------------------ state
VARIABLES
  prog,                \* the class declarations in use (fixed per behaviour)
  finalized,           \* Container.finalized
  bindings,            \* Container.bindings: Map<ProviderClass, ProviderClass>
  instances,           \* Container.instances: Map<ProviderClass, any>
  instanceProviders,   \* Container.instanceProviders: Map<any, IProvider>
  useStack,            \* Container.useStack
  unresolvedCircular,  \* Container.unresolvedCircular
  bootedPromises,      \* Container.bootedPromises (absent until bootAll)
  disposedPromises,    \* Container.disposedPromises (absent until dispose)
  heap,                \* every object allocated so far, by reference
  proms,               \* every promise allocated so far, by reference
  queue,               \* the microtask queue (FIFO)
  tasks,               \* activations of boot/dispose hooks
  ctl,                 \* the synchronous call stack, innermost frame last
  hostActive,          \* the host's synchronous code is running
  order,               \* the array the order tests push into
  hostRet,             \* outcome of the host's last synchronous call
  uses,                \* what each completed use() call returned, in order
  calls,               \* the host's calls so far, with the promises returned
  waits,               \* what each booted()/disposed() call returned, in order
  applied,             \* the invocations of functions handed to apply(), in order
  count                \* number of host calls made, per operation

cvars == <<finalized, bindings, instances, instanceProviders, useStack,
           unresolvedCircular, bootedPromises, disposedPromises>>
vars == <<prog, finalized, bindings, instances, instanceProviders, useStack,
          unresolvedCircular, bootedPromises, disposedPromises, heap, proms,
          queue, tasks, ctl, hostActive, order, hostRet, uses, calls, waits, applied,
          count>>

Absent == [present |-> FALSE, map |-> << >>]
Present(m) == [present |-> TRUE, map |-> m]

Obj(k, c) == [kind |-> k, cls |-> c, fields |-> << >>]
\* self: the call returned the container itself ("return this")
Ret(o, e, v, s) == [op |-> o, err |-> e, val |-> v, self |-> s]
NoError == ""

Init ==
  /\ prog \in Programs
  /\ finalized = FALSE
  /\ bindings = << >>
  /\ instances = << >>
  /\ instanceProviders = << >>
  /\ useStack = << >>
  /\ unresolvedCircular = << >>
  /\ bootedPromises = Absent
  /\ disposedPromises = Absent
  /\ heap = << Obj("value", NoClass) >>
  /\ proms = << >>
  /\ queue = << >>
  /\ tasks = << >>
  /\ ctl = << >>
  /\ hostActive = TRUE
  /\ order = << >>
  /\ hostRet = Ret("none", NoError, Undefined, FALSE)
  /\ uses = << >>
  /\ calls = << >>
  /\ waits = << >>
  /\ applied = << >>
  /\ count = [boot |-> 0, dispose |-> 0, bind |-> 0, use |-> 0, apply |-> 0]

\* --------------------------------------------------------------- promises
Promise(st, e, v) ==
  [state |-> st, err |-> e, val |-> v, reactions |-> << >>, cnt |-> 0, ext |-> FALSE]
Reaction(k, x, y) == [kind |-> k, a |-> x, b |-> y]
Job(k, c, x, y, st, e, v) ==
  [kind |-> k, cls |-> c, a |-> x, b |-> y, st |-> st, err |-> e, val |-> v]

\* A promise/queue pair threaded through the steps of one action.
PQ(ps, q) == [proms |-> ps, queue |-> q]

\* Settling a pending promise queues one job per registered reaction.
Settle(pq, pid, st, e, v) ==
  LET p == pq.proms[pid] IN
  IF p.state # "pending" THEN pq
  ELSE PQ([pq.proms EXCEPT ![pid] = [p EXCEPT !.state = st, !.err = e, !.val = v,
                                               !.reactions = << >>]],
          pq.queue \o [i \in 1..Len(p.reactions) |->
                         Job(p.reactions[i].kind, NoClass, p.reactions[i].a,
                             p.reactions[i].b, st, e, v)])

\* PerformPromiseThen: register on a pending promise, queue a job otherwise.
Then(pq, pid, r) ==
  LET p == pq.proms[pid] IN
  IF p.state = "pending"
    THEN PQ([pq.proms EXCEPT ![pid].reactions = Append(@, r)], pq.queue)
    ELSE PQ(pq.proms, Append(pq.queue, Job(r.kind, NoClass, r.a, r.b, p.state, p.err, p.val)))

New(pq, st, e, v) == PQ(Append(pq.proms, Promise(st, e, v)), pq.queue)

\* ------------------------------------------------------- synchronous code
Frame(k, c, d, r, o) == [kind |-> k, cls |-> c, dep |-> d, req |-> r, obj |-> o, pc |-> 0, ret |-> Undefined]
CtorFrame(c, d, r, o) == [Frame("ctor", c, d, r, o) EXCEPT !.pc = 1]

Top == ctl[Len(ctl)]
Base == ctl[1]

HookOf(t) == IF t.phase = "boot" THEN prog.boot[t.cls] ELSE prog.dispose[t.cls]
HookAt(f) == HookOf(tasks[f.obj]).ops[tasks[f.obj].pc]
HookHasOp(f) == tasks[f.obj].pc <= Len(HookOf(tasks[f.obj]).ops)

\* The top frame is about to evaluate a use() call.
AtUse ==
  /\ ctl # << >>
  /\ \/ Top.kind = "ctor" /\ Top.pc <= Len(prog.fields[Top.cls])
     \/ Top.kind \in {"boot", "hostuse"} /\ Top.pc = 0
     \/ Top.kind = "hook" /\ HookHasOp(Top) /\ HookAt(Top).op = "use"

\* Arguments of that call: Injectable.use passes this.constructor.
UseDependency ==
  CASE Top.kind = "ctor" -> prog.fields[Top.cls][Top.pc]
    [] Top.kind = "hook" -> HookAt(Top).cls
    [] OTHER -> Top.dep
UseDependent ==
  CASE Top.kind = "ctor" -> Top.cls
    [] Top.kind = "hook" -> tasks[Top.obj].cls
    [] OTHER -> NoClass

Used(d, r, v, h) == [Dependency |-> d, Dependent |-> r, val |-> v, how |-> h]

\* The caller receives the value use() returned and moves on.
Deliver(c, h, t, v) ==
  LET f == c[Len(c)]
      copied == /\ f.kind = "ctor"
                /\ f.pc < Len(prog.fields[f.cls])
                /\ prog.fields[f.cls][f.pc + 1] = Again
  IN
  CASE f.kind = "ctor" ->
         [ctl |-> [c EXCEPT ![Len(c)].pc = IF copied THEN @ + 2 ELSE @ + 1],
          heap |-> [h EXCEPT ![f.obj].fields =
                               IF copied THEN @ \o << v, v >> ELSE Append(@, v)],
          tasks |-> t]
    [] f.kind = "hook" ->
         [ctl |-> c, heap |-> h, tasks |-> [t EXCEPT ![f.obj].pc = @ + 1]]
    [] OTHER ->
         [ctl |-> [c EXCEPT ![Len(c)].pc = 1, ![Len(c)].ret = v],
          heap |-> h, tasks |-> t]

\* An async hook ends (rank: its place among the hook activations that have
\* ended so far): its promise settles; if the then-callback that
\* called it is still on the stack the callback returns that promise, and
\* the signal is resolved with it (NewPromiseResolveThenableJob).  A plain
\* function's result or exception settles the signal directly.
HookEnd(pq, t, tid, e) ==
  LET tk == t[tid]
      st == IF e = NoError THEN "fulfilled" ELSE "rejected"
      p1 == IF HookOf(tk).async THEN Settle(pq, tk.prom, st, e, Undefined)
            ELSE Settle(pq, tk.q, st, e, Undefined)
      p2 == IF HookOf(tk).async /\ tk.first
              THEN PQ(p1.proms, Append(p1.queue,
                        Job("thenable", NoClass, tk.q, tk.prom, "fulfilled", NoError, Undefined)))
              ELSE p1
      ended == Cardinality({i \in 1..Len(t) : t[i].state \in {"done", "failed"}})
  IN [pq |-> p2,
      tasks |-> [t EXCEPT ![tid].state = IF e = NoError THEN "done" ELSE "failed",
                          ![tid].first = FALSE,
                          ![tid].err = e,
                          ![tid].rank = ended + 1]]

\* An exception leaves every frame (the library has no try/catch) and
\* reaches the code that entered the container.
Unwind(e) ==
  /\ ctl' = << >>
  /\ CASE Base.kind = "boot" ->
            LET pq == Settle(PQ(proms, queue), Base.obj, "rejected", e, Undefined) IN
            /\ proms' = pq.proms /\ queue' = pq.queue
            /\ UNCHANGED <<tasks, hostRet>>
       [] Base.kind = "hostuse" ->
            /\ hostRet' = Ret("use", e, Undefined, FALSE)
            /\ UNCHANGED <<proms, queue, tasks>>
       [] OTHER ->
            LET r == HookEnd(PQ(proms, queue), tasks, Base.obj, e) IN
            /\ proms' = r.pq.proms /\ queue' = r.pq.queue /\ tasks' = r.tasks
            /\ UNCHANGED hostRet

\* use(): "instance !== undefined" -- the cached instance is returned.
UseCached ==
  /\ AtUse
  /\ MapGet(instances, UseDependency) # Undefined
  /\ LET r == Deliver(ctl, heap, tasks, MapGet(instances, UseDependency)) IN
     /\ ctl' = r.ctl /\ heap' = r.heap /\ tasks' = r.tasks
  /\ uses' = Append(uses, Used(UseDependency, UseDependent, MapGet(instances, UseDependency), "cached"))
  /\ UNCHANGED <<prog, waits, applied, cvars, proms, queue, hostActive, order, hostRet, calls, count>>

\* use() that also caches the placeholder it hands out
UsePlaceholderCached ==
  /\ AtUse
  /\ MapGet(instances, UseDependency) = Undefined
  /\ Contains(useStack, UseDependency) /\ UseDependent # NoClass
  /\ LET temp == Len(heap) + 1
         r == Deliver(ctl, Append(heap, Obj("temp", NoClass)), tasks, temp) IN
     /\ unresolvedCircular' = Append(unresolvedCircular,
           [temp |-> temp, Dependent |-> UseDependent, Dependency |-> UseDependency])
     /\ instances' = MapSet(instances, UseDependency, temp)
     /\ ctl' = r.ctl /\ heap' = r.heap /\ tasks' = r.tasks
     /\ uses' = Append(uses, Used(UseDependency, UseDependent, temp, "temp"))
  /\ UNCHANGED <<prog, waits, applied, finalized, bindings, instanceProviders, useStack,
                 bootedPromises, disposedPromises, proms, queue, hostActive, order,
                 hostRet, calls, count>>

\* use(): the dependency is on the use stack and a dependent was given.
UsePlaceholder ==
  /\ AtUse
  /\ MapGet(instances, UseDependency) = Undefined
  /\ Contains(useStack, UseDependency) /\ UseDependent # NoClass
  /\ LET temp == Len(heap) + 1
         r == Deliver(ctl, Append(heap, Obj("temp", NoClass)), tasks, temp) IN
     /\ unresolvedCircular' = Append(unresolvedCircular,
           [temp |-> temp, Dependent |-> UseDependent, Dependency |-> UseDependency])
     /\ ctl' = r.ctl /\ heap' = r.heap /\ tasks' = r.tasks
     /\ uses' = Append(uses, Used(UseDependency, UseDependent, temp, "temp"))
  /\ UNCHANGED <<prog, waits, applied, finalized, bindings, instances, instanceProviders, useStack,
                 bootedPromises, disposedPromises, proms, queue, hostActive, order,
                 hostRet, calls, count>>

\* make(): this.bindings.get(Dependency) ?? Dependency
ImplementationUnbound(Dependency) == Dependency

Implementation(Dependency) ==
  IF MapHas(bindings, Dependency) THEN MapGet(bindings, Dependency) ELSE Dependency

Depth == Cardinality({i \in 1..Len(ctl) : ctl[i].kind = "ctor"})

\* use() -> make(): push the dependent and run "new Implementation(this)".
UseMake ==
  /\ AtUse
  /\ MapGet(instances, UseDependency) = Undefined
  /\ ~(Contains(useStack, UseDependency) /\ UseDependent # NoClass)
  /\ Depth < MaxDepth
  /\ useStack' = IF UseDependent # NoClass THEN Append(useStack, UseDependent) ELSE useStack
  /\ heap' = Append(heap, Obj("provider", Implementation(UseDependency)))
  /\ ctl' = Append(ctl, CtorFrame(Implementation(UseDependency), UseDependency,
                                  UseDependent, Len(heap) + 1))
  /\ UNCHANGED <<prog, waits, applied, finalized, bindings, instances, instanceProviders,
                 unresolvedCircular, bootedPromises, disposedPromises, proms, queue,
                 tasks, hostActive, order, hostRet, uses, calls, count>>

\* Unbounded recursion of use/make ends in the engine's RangeError.
UseOverflow ==
  /\ AtUse
  /\ MapGet(instances, UseDependency) = Undefined
  /\ ~(Contains(useStack, UseDependency) /\ UseDependent # NoClass)
  /\ Depth >= MaxDepth
  /\ useStack' = IF UseDependent # NoClass THEN Append(useStack, UseDependent) ELSE useStack
  /\ Unwind("RangeError")
  /\ UNCHANGED <<prog, waits, applied, finalized, bindings, instances, instanceProviders,
                 unresolvedCircular, bootedPromises, disposedPromises, heap,
                 hostActive, order, uses, calls, count>>

AtCtorCall ==
  /\ ctl # << >> /\ Top.kind = "ctor"
  /\ Top.pc > Len(prog.fields[Top.cls])
  /\ Top.pc <= Len(prog.fields[Top.cls]) + Len(CtorCalls[Top.cls])

AtProvide ==
  /\ ctl # << >> /\ Top.kind = "ctor"
  /\ Top.pc > Len(prog.fields[Top.cls]) + Len(CtorCalls[Top.cls])

\* provide() of a value provider written as "return this"
ProvidedSelf(f) == f.obj

Provided(f) == IF prog.provide[f.cls] = "value" THEN ExtValue ELSE f.obj

\* make() after the constructor: provide(), index the provider; back in
\* use(): pop the dependent, cache the instance, return it.
MakeReturn ==
  /\ AtProvide
  /\ prog.provide[Top.cls] # "throw"
  /\ LET instance == Provided(Top)
         r == Deliver(Front(ctl), heap, tasks, instance) IN
     /\ instanceProviders' = MapSet(instanceProviders, instance, Top.obj)
     /\ useStack' = IF Top.req # NoClass THEN Front(useStack) ELSE useStack
     /\ instances' = MapSet(instances, Top.dep, instance)
     /\ ctl' = r.ctl /\ heap' = r.heap /\ tasks' = r.tasks
     /\ uses' = Append(uses, Used(Top.dep, Top.req, instance, "made"))
  /\ UNCHANGED <<prog, waits, applied, finalized, bindings, unresolvedCircular, bootedPromises,
                 disposedPromises, proms, queue, hostActive, order, hostRet, calls, count>>

\* provide() throws: nothing is indexed, popped or cached.
MakeThrow ==
  /\ AtProvide
  /\ prog.provide[Top.cls] = "throw"
  /\ Unwind("NotImplemented")
  /\ UNCHANGED <<prog, waits, applied, cvars, heap, hostActive, order, uses, calls, count>>

\* ------------------------------------------------------------- host calls
HostCalls == count.boot + count.dispose + count.bind + count.use + count.apply
HostQuiet == hostActive /\ ctl = << >> /\ HostCalls < MaxHostCalls

\* Implementation classes the host may bind to an identity.
BindPairs == { <<"A", "A2">>, <<"A", "A">> }
HostUses == {"A"}
Roots == {"Root"}

\* One host call: its operation, class arguments, the promise it returned
\* (boot, dispose), the cache keys when its phase started with the signal
\* made for each, and its error.
Call(k, r, i, p, e) ==
  [kind |-> k, root |-> r, impl |-> i, prom |-> p, keys |-> << >>,
   signals |-> << >>, err |-> e]

\* bind() that refuses once boot() was called instead of once instantiated
bindBeforeBoot(Provider, Impl) ==
  /\ HostQuiet
  /\ count.bind < MaxBind
  /\ count' = [count EXCEPT !.bind = @ + 1]
  /\ IF finalized
       THEN /\ hostRet' = Ret("bind", "AlreadyInstantiated", Undefined, FALSE)
            /\ calls' = Append(calls, Call("bind", Provider, Impl, 0, "AlreadyInstantiated"))
            /\ UNCHANGED bindings
       ELSE /\ bindings' = MapSet(bindings, Provider, Impl)
            /\ calls' = Append(calls, Call("bind", Provider, Impl, 0, NoError))
            /\ hostRet' = Ret("bind", NoError, Undefined, TRUE)
  /\ UNCHANGED <<prog, waits, applied, finalized, instances, instanceProviders, useStack,
                 unresolvedCircular, bootedPromises, disposedPromises, heap, proms,
                 queue, tasks, ctl, hostActive, order, uses>>

\* Container.bind
bind(Provider, Impl) ==
  /\ HostQuiet
  /\ count.bind < MaxBind
  /\ count' = [count EXCEPT !.bind = @ + 1]
  /\ IF MapHas(instances, Provider)
       THEN /\ hostRet' = Ret("bind", "AlreadyInstantiated", Undefined, FALSE)
            /\ calls' = Append(calls, Call("bind", Provider, Impl, 0, "AlreadyInstantiated"))
            /\ UNCHANGED bindings
       ELSE /\ bindings' = MapSet(bindings, Provider, Impl)
            /\ calls' = Append(calls, Call("bind", Provider, Impl, 0, NoError))
            /\ hostRet' = Ret("bind", NoError, Undefined, TRUE)
  /\ UNCHANGED <<prog, waits, applied, finalized, instances, instanceProviders, useStack,
                 unresolvedCircular, bootedPromises, disposedPromises, heap, proms,
                 queue, tasks, ctl, hostActive, order, uses>>

\* The functions the host hands to apply(): the test's (c) => (applied = c),
\* which returns the container, and the README's sigintHandler, which
\* registers a signal handler and returns undefined.
ApplyFuncs == {"capture", "sigintHandler"}
ThisContainer == "this"
FuncResult(func) == IF func = "capture" THEN ThisContainer ELSE "undefined"
Invoked(func, args) == [func |-> func, args |-> args]

\* apply() written as "return func(this)"
applyReturningResult(func) ==
  /\ HostQuiet
  /\ count.apply < MaxApply
  /\ count' = [count EXCEPT !.apply = @ + 1]
  /\ applied' = Append(applied, Invoked(func, <<ThisContainer>>))
  /\ calls' = Append(calls, Call("apply", func, NoClass, 0, NoError))
  /\ hostRet' = Ret("apply", NoError, Undefined, FuncResult(func) = ThisContainer)
  /\ UNCHANGED <<prog, waits, cvars, heap, proms, queue, tasks, ctl, hostActive, order, uses>>

\* Container.apply: func(this); return this
apply(func) ==
  /\ HostQuiet
  /\ count.apply < MaxApply
  /\ count' = [count EXCEPT !.apply = @ + 1]
  /\ applied' = Append(applied, Invoked(func, <<ThisContainer>>))
  /\ calls' = Append(calls, Call("apply", func, NoClass, 0, NoError))
  /\ hostRet' = Ret("apply", NoError, Undefined, TRUE)
  /\ UNCHANGED <<prog, waits, cvars, heap, proms, queue, tasks, ctl, hostActive, order, uses>>

\* Container.use called by the host, without a dependent.
HostUse(Dependency) ==
  /\ HostQuiet
  /\ count.use < MaxHostUse
  /\ count' = [count EXCEPT !.use = @ + 1]
  /\ ctl' = << Frame("hostuse", NoClass, Dependency, NoClass, 0) >>
  /\ calls' = Append(calls, Call("use", Dependency, NoClass, 0, NoError))
  /\ UNCHANGED <<prog, waits, applied, cvars, heap, proms, queue, tasks, hostActive, order, hostRet, uses>>

HostUseReturn ==
  /\ ctl # << >> /\ Top.kind = "hostuse" /\ Top.pc = 1
  /\ ctl' = << >>
  /\ hostRet' = Ret("use", NoError, Top.ret, FALSE)
  /\ UNCHANGED <<prog, waits, applied, cvars, heap, proms, queue, tasks, hostActive, order, uses, calls, count>>

\* boot() without the finalized check
bootUnguarded(Root) ==
  /\ HostQuiet
  /\ count.boot < MaxBoot
  /\ count' = [count EXCEPT !.boot = @ + 1]
  /\ calls' = Append(calls, Call("boot", Root, NoClass, Len(proms) + 1, NoError))
  /\ hostRet' = Ret("boot", NoError, Len(proms) + 1, FALSE)
  /\ finalized' = TRUE
  /\ proms' = Append(proms, Promise("pending", NoError, Undefined))
  /\ ctl' = << Frame("boot", NoClass, Root, NoClass, Len(proms) + 1) >>
  /\ UNCHANGED <<prog, waits, applied, bindings, instances, instanceProviders, useStack,
                 unresolvedCircular, bootedPromises, disposedPromises, heap, queue,
                 tasks, hostActive, order, uses>>

\* boot() that returns its promise without ever running its body
bootHanging(Root) ==
  /\ HostQuiet
  /\ count.boot < MaxBoot
  /\ count' = [count EXCEPT !.boot = @ + 1]
  /\ calls' = Append(calls, Call("boot", Root, NoClass, Len(proms) + 1,
                          IF finalized THEN "AlreadyFinalized" ELSE NoError))
  /\ hostRet' = Ret("boot", NoError, Len(proms) + 1, FALSE)
  /\ IF finalized
       THEN /\ proms' = Append(proms, Promise("rejected", "AlreadyFinalized", Undefined))
            /\ UNCHANGED finalized
       ELSE /\ finalized' = TRUE
            /\ proms' = Append(proms, Promise("pending", NoError, Undefined))
  /\ UNCHANGED <<prog, waits, applied, bindings, instances, instanceProviders, useStack,
                 unresolvedCircular, bootedPromises, disposedPromises, heap, queue,
                 tasks, ctl, hostActive, order, uses>>

\* Container.boot up to "this.use(Root)".
boot(Root) ==
  /\ HostQuiet
  /\ count.boot < MaxBoot
  /\ count' = [count EXCEPT !.boot = @ + 1]
  /\ calls' = Append(calls, Call("boot", Root, NoClass, Len(proms) + 1,
                          IF finalized THEN "AlreadyFinalized" ELSE NoError))
  /\ hostRet' = Ret("boot", NoError, Len(proms) + 1, FALSE)
  /\ IF finalized
       THEN /\ proms' = Append(proms, Promise("rejected", "AlreadyFinalized", Undefined))
            /\ UNCHANGED <<finalized, ctl>>
       ELSE /\ finalized' = TRUE
            /\ proms' = Append(proms, Promise("pending", NoError, Undefined))
            /\ ctl' = << Frame("boot", NoClass, Root, NoClass, Len(proms) + 1) >>
  /\ UNCHANGED <<prog, waits, applied, bindings, instances, instanceProviders, useStack,
                 unresolvedCircular, bootedPromises, disposedPromises, heap, queue,
                 tasks, hostActive, order, uses>>

\* Index of the first field of object o that holds temp, 0 if none.
FirstField(h, o, temp) ==
  LET fs == h[o].fields
      hit == {j \in 1..Len(fs) : fs[j] = temp}
  IN IF hit = {} THEN 0 ELSE CHOOSE j \in hit : \A k \in hit : j <= k

\* resolveCircular() scanning the dependency instead of the dependant
RECURSIVE resolveCircularSwapped(_, _)
resolveCircularSwapped(h, recs) ==
  IF recs = << >> THEN h
  ELSE LET r == Head(recs)
           dependant == MapGet(instances, r.Dependency)
           dependency == MapGet(instances, r.Dependent)
           j == IF dependant = Undefined THEN 0 ELSE FirstField(h, dependant, r.temp)
       IN resolveCircularSwapped(
            IF j = 0 THEN h ELSE [h EXCEPT ![dependant].fields[j] = dependency],
            Tail(recs))

\* resolveCircular() without the break: every matching field is overwritten
RECURSIVE resolveCircularEvery(_, _)
resolveCircularEvery(h, recs) ==
  IF recs = << >> THEN h
  ELSE LET r == Head(recs)
           dependant == MapGet(instances, r.Dependent)
           dependency == MapGet(instances, r.Dependency)
       IN resolveCircularEvery(
            IF dependant = Undefined THEN h
            ELSE [h EXCEPT ![dependant].fields =
                    [j \in 1..Len(@) |-> IF @[j] = r.temp THEN dependency ELSE @[j]]],
            Tail(recs))

\* Container.resolveCircular: the records are handled in order.
RECURSIVE resolveCircular(_, _)
resolveCircular(h, recs) ==
  IF recs = << >> THEN h
  ELSE LET r == Head(recs)
           dependant == MapGet(instances, r.Dependent)
           dependency == MapGet(instances, r.Dependency)
           j == IF dependant = Undefined THEN 0 ELSE FirstField(h, dependant, r.temp)
       IN resolveCircular(IF j = 0 THEN h ELSE [h EXCEPT ![dependant].fields[j] = dependency],
                          Tail(recs))

\* The phase body with the callbacks queued in reverse cache order
StartPhaseReversed(pq, cbKind, callIdx, cont) ==
  LET n0 == Len(pq.proms)
      n == Len(instances)
      agg == n0 + n + 1
      signals == [i \in 1..n |->
                    [Promise("pending", NoError, Undefined) EXCEPT
                       !.reactions = << Reaction("all", agg, i) >>]]
      cbs == [i \in 1..n |->
                Job(cbKind, instances[n + 1 - i].k, instances[n + 1 - i].v, n0 + n + 1 - i,
                    "fulfilled", NoError, callIdx)]
      aggP == [Promise(IF n = 0 THEN "fulfilled" ELSE "pending", NoError, Undefined)
                 EXCEPT !.cnt = n]
  IN [pq |-> Then(PQ(pq.proms \o signals \o << aggP >>, pq.queue \o cbs), agg, cont),
      map |-> [i \in 1..n |-> Entry(instances[i].k, n0 + i)]]

\* The body shared by bootAll and dispose: one signal per cached instance,
\* "Promise.resolve().then(callback)", then Promise.all over the signals
\* awaited by the continuation cont.  The signals are proms[n0+1..n0+n], the
\* aggregate is proms[n0+n+1].
StartPhase(pq, cbKind, callIdx, cont) ==
  LET n0 == Len(pq.proms)
      n == Len(instances)
      agg == n0 + n + 1
      signals == [i \in 1..n |->
                    [Promise("pending", NoError, Undefined) EXCEPT
                       !.reactions = << Reaction("all", agg, i) >>]]
      cbs == [i \in 1..n |->
                Job(cbKind, instances[i].k, instances[i].v, n0 + i,
                    "fulfilled", NoError, callIdx)]
      aggP == [Promise(IF n = 0 THEN "fulfilled" ELSE "pending", NoError, Undefined)
                 EXCEPT !.cnt = n]
  IN [pq |-> Then(PQ(pq.proms \o signals \o << aggP >>, pq.queue \o cbs), agg, cont),
      map |-> [i \in 1..n |-> Entry(instances[i].k, n0 + i)]]

\* boot() whose patching leaves the pending records in the list
BootResumeKeeping ==
  /\ ctl # << >> /\ Top.kind = "boot" /\ Top.pc = 1
  /\ LET n == Len(instances)
         bootAllP == Len(proms) + n + 2
         r == StartPhase(PQ(proms, queue), "bootcb", Len(calls),
                         Reaction("bootAllCont", bootAllP, 0))
         ps == Append(r.pq.proms,
                      [Promise("pending", NoError, Undefined) EXCEPT
                         !.reactions = << Reaction("bootCont", Top.obj, Top.ret) >>])
     IN /\ heap' = resolveCircular(heap, unresolvedCircular)
        /\ unresolvedCircular' = unresolvedCircular
        /\ bootedPromises' = Present(r.map)
        /\ proms' = ps
        /\ queue' = r.pq.queue
        /\ calls' = [calls EXCEPT ![Len(calls)].keys = [i \in 1..n |-> instances[i].k],
                                  ![Len(calls)].signals = [i \in 1..n |-> r.map[i].v]]
  /\ ctl' = << >>
  /\ UNCHANGED <<prog, waits, applied, finalized, bindings, instances, instanceProviders, useStack,
                 disposedPromises, tasks, hostActive, order, hostRet, count, uses>>

\* Container.boot after use(Root) returned: resolveCircular(), then
\* bootAll() up to its await, then boot's own await.
BootResume ==
  /\ ctl # << >> /\ Top.kind = "boot" /\ Top.pc = 1
  /\ LET n == Len(instances)
         bootAllP == Len(proms) + n + 2
         r == StartPhase(PQ(proms, queue), "bootcb", Len(calls),
                         Reaction("bootAllCont", bootAllP, 0))
         ps == Append(r.pq.proms,
                      [Promise("pending", NoError, Undefined) EXCEPT
                         !.reactions = << Reaction("bootCont", Top.obj, Top.ret) >>])
     IN /\ heap' = resolveCircular(heap, unresolvedCircular)
        /\ unresolvedCircular' = << >>
        /\ bootedPromises' = Present(r.map)
        /\ proms' = ps
        /\ queue' = r.pq.queue
        /\ calls' = [calls EXCEPT ![Len(calls)].keys = [i \in 1..n |-> instances[i].k],
                                  ![Len(calls)].signals = [i \in 1..n |-> r.map[i].v]]
  /\ ctl' = << >>
  /\ UNCHANGED <<prog, waits, applied, finalized, bindings, instances, instanceProviders, useStack,
                 disposedPromises, tasks, hostActive, order, hostRet, count, uses>>

\* dispose() that also finalizes the container
disposeFinalizing ==
  /\ HostQuiet
  /\ count.dispose < MaxDispose
  /\ finalized' = TRUE
  /\ count' = [count EXCEPT !.dispose = @ + 1]
  /\ LET disposeP == Len(proms) + 1
         r == StartPhase(PQ(Append(proms, Promise("pending", NoError, Undefined)), queue),
                         "disposecb", Len(calls) + 1, Reaction("disposeCont", disposeP, 0))
     IN /\ disposedPromises' = Present(r.map)
        /\ proms' = r.pq.proms
        /\ queue' = r.pq.queue
        /\ calls' = Append(calls, [Call("dispose", NoClass, NoClass, disposeP, NoError) EXCEPT
                                     !.keys = [i \in 1..Len(instances) |-> instances[i].k],
                                     !.signals = [i \in 1..Len(instances) |-> r.map[i].v]])
        /\ hostRet' = Ret("dispose", NoError, disposeP, FALSE)
  /\ UNCHANGED <<prog, waits, applied, bindings, instances, instanceProviders, useStack,
                 unresolvedCircular, bootedPromises, heap, tasks, ctl, hostActive, order, uses>>

\* dispose() without "await": its promise is fulfilled at once
disposeDetached ==
  /\ HostQuiet
  /\ count.dispose < MaxDispose
  /\ count' = [count EXCEPT !.dispose = @ + 1]
  /\ LET disposeP == Len(proms) + 1
         r == StartPhase(PQ(Append(proms, Promise("fulfilled", NoError, Undefined)), queue),
                         "disposecb", Len(calls) + 1, Reaction("disposeCont", disposeP, 0))
     IN /\ disposedPromises' = Present(r.map)
        /\ proms' = r.pq.proms
        /\ queue' = r.pq.queue
        /\ calls' = Append(calls, [Call("dispose", NoClass, NoClass, disposeP, NoError) EXCEPT
                                     !.keys = [i \in 1..Len(instances) |-> instances[i].k],
                                     !.signals = [i \in 1..Len(instances) |-> r.map[i].v]])
        /\ hostRet' = Ret("dispose", NoError, disposeP, FALSE)
  /\ UNCHANGED <<prog, waits, applied, finalized, bindings, instances, instanceProviders, useStack,
                 unresolvedCircular, bootedPromises, heap, tasks, ctl, hostActive, order, uses>>

\* dispose() that starts the hooks without recording their signals
disposeUnlisted ==
  /\ HostQuiet
  /\ count.dispose < MaxDispose
  /\ count' = [count EXCEPT !.dispose = @ + 1]
  /\ LET disposeP == Len(proms) + 1
         r == StartPhase(PQ(Append(proms, Promise("pending", NoError, Undefined)), queue),
                         "disposecb", Len(calls) + 1, Reaction("disposeCont", disposeP, 0))
     IN /\ disposedPromises' = Present(<< >>)
        /\ proms' = r.pq.proms
        /\ queue' = r.pq.queue
        /\ calls' = Append(calls, [Call("dispose", NoClass, NoClass, disposeP, NoError) EXCEPT
                                     !.keys = [i \in 1..Len(instances) |-> instances[i].k],
                                     !.signals = [i \in 1..Len(instances) |-> r.map[i].v]])
        /\ hostRet' = Ret("dispose", NoError, disposeP, FALSE)
  /\ UNCHANGED <<prog, waits, applied, finalized, bindings, instances, instanceProviders, useStack,
                 unresolvedCircular, bootedPromises, heap, tasks, ctl, hostActive, order, uses>>

\* dispose() guarded against repetition: a second call starts nothing
disposeOnce ==
  /\ HostQuiet
  /\ count.dispose < MaxDispose
  /\ count' = [count EXCEPT !.dispose = @ + 1]
  /\ IF count.dispose > 0
       THEN /\ proms' = Append(proms, Promise("fulfilled", NoError, Undefined))
            /\ calls' = Append(calls, Call("dispose", NoClass, NoClass, Len(proms) + 1, NoError))
            /\ hostRet' = Ret("dispose", NoError, Len(proms) + 1, FALSE)
            /\ UNCHANGED <<disposedPromises, queue>>
       ELSE LET disposeP == Len(proms) + 1
                r == StartPhase(PQ(Append(proms, Promise("pending", NoError, Undefined)), queue),
                                "disposecb", Len(calls) + 1, Reaction("disposeCont", disposeP, 0))
            IN /\ disposedPromises' = Present(r.map)
               /\ proms' = r.pq.proms
               /\ queue' = r.pq.queue
               /\ calls' = Append(calls, [Call("dispose", NoClass, NoClass, disposeP, NoError) EXCEPT
                                            !.keys = [i \in 1..Len(instances) |-> instances[i].k],
                                            !.signals = [i \in 1..Len(instances) |-> r.map[i].v]])
               /\ hostRet' = Ret("dispose", NoError, disposeP, FALSE)
  /\ UNCHANGED <<prog, waits, applied, finalized, bindings, instances, instanceProviders, useStack,
                 unresolvedCircular, bootedPromises, heap, tasks, ctl, hostActive, order, uses>>

\* dispose() that refuses while a boot hook has not ended
disposeChecking ==
  /\ HostQuiet
  /\ count.dispose < MaxDispose
  /\ count' = [count EXCEPT !.dispose = @ + 1]
  /\ IF \E t \in 1..Len(tasks) : tasks[t].phase = "boot" /\ tasks[t].state \notin {"done", "failed"}
       THEN /\ proms' = Append(proms, Promise("rejected", "BootPending", Undefined))
            /\ calls' = Append(calls, Call("dispose", NoClass, NoClass, Len(proms) + 1, "BootPending"))
            /\ hostRet' = Ret("dispose", "BootPending", Len(proms) + 1, FALSE)
            /\ UNCHANGED <<disposedPromises, queue>>
       ELSE LET disposeP == Len(proms) + 1
                r == StartPhase(PQ(Append(proms, Promise("pending", NoError, Undefined)), queue),
                                "disposecb", Len(calls) + 1, Reaction("disposeCont", disposeP, 0))
            IN /\ disposedPromises' = Present(r.map)
               /\ proms' = r.pq.proms
               /\ queue' = r.pq.queue
               /\ calls' = Append(calls, [Call("dispose", NoClass, NoClass, disposeP, NoError) EXCEPT
                                            !.keys = [i \in 1..Len(instances) |-> instances[i].k],
                                            !.signals = [i \in 1..Len(instances) |-> r.map[i].v]])
               /\ hostRet' = Ret("dispose", NoError, disposeP, FALSE)
  /\ UNCHANGED <<prog, waits, applied, finalized, bindings, instances, instanceProviders, useStack,
                 unresolvedCircular, bootedPromises, heap, tasks, ctl, hostActive, order, uses>>

\* Container.dispose up to its await.
dispose ==
  /\ HostQuiet
  /\ count.dispose < MaxDispose
  /\ count' = [count EXCEPT !.dispose = @ + 1]
  /\ LET disposeP == Len(proms) + 1
         r == StartPhase(PQ(Append(proms, Promise("pending", NoError, Undefined)), queue),
                         "disposecb", Len(calls) + 1, Reaction("disposeCont", disposeP, 0))
     IN /\ disposedPromises' = Present(r.map)
        /\ proms' = r.pq.proms
        /\ queue' = r.pq.queue
        /\ calls' = Append(calls, [Call("dispose", NoClass, NoClass, disposeP, NoError) EXCEPT
                                     !.keys = [i \in 1..Len(instances) |-> instances[i].k],
                                     !.signals = [i \in 1..Len(instances) |-> r.map[i].v]])
        /\ hostRet' = Ret("dispose", NoError, disposeP, FALSE)
  /\ UNCHANGED <<prog, waits, applied, finalized, bindings, instances, instanceProviders, useStack,
                 unresolvedCircular, bootedPromises, heap, tasks, ctl, hostActive, order, uses>>

\* The host's synchronous code returns to the event loop.
EndTurn ==
  /\ hostActive /\ ctl = << >> /\ queue # << >>
  /\ hostActive' = FALSE
  /\ UNCHANGED <<prog, waits, applied, cvars, heap, proms, queue, tasks, ctl, order, hostRet, uses, calls, count>>

\* A later macrotask runs host code again (timer, signal handler, ...).
HostWake ==
  /\ ~hostActive /\ ctl = << >> /\ queue = << >>
  /\ hostActive' = TRUE
  /\ UNCHANGED <<prog, waits, applied, cvars, heap, proms, queue, tasks, ctl, order, hostRet, uses, calls, count>>

\* -------------------------------------------------------------- microtasks
MicroTurn == ~hostActive /\ ctl = << >> /\ queue # << >>

Task(c, o, k, i, ph, cl, p, q) ==
  [cls |-> c, obj |-> o, key |-> k, inst |-> i, phase |-> ph, call |-> cl,
   pc |-> 1, prom |-> p, q |-> q, state |-> "running", first |-> TRUE,
   awaited |-> << >>, err |-> NoError, rank |-> 0]

\* The callback of bootAll/dispose:
\*   () => this.instanceProviders.get(instance)?.boot?.(instance)
RunCallback ==
  /\ MicroTurn
  /\ Head(queue).kind \in {"bootcb", "disposecb"}
  /\ LET j == Head(queue)
         phase == IF j.kind = "bootcb" THEN "boot" ELSE "dispose"
         provider == MapGet(instanceProviders, j.a)
         hook == IF provider = Undefined THEN NoHook
                 ELSE IF phase = "boot" THEN prog.boot[heap[provider].cls]
                 ELSE prog.dispose[heap[provider].cls]
     IN IF ~hook.present
          THEN LET pq == Settle(PQ(proms, Tail(queue)), j.b, "fulfilled", NoError, Undefined) IN
               /\ proms' = pq.proms /\ queue' = pq.queue
               /\ UNCHANGED <<tasks, ctl>>
          ELSE /\ tasks' = Append(tasks,
                     Task(heap[provider].cls, provider, j.cls, j.a, phase, j.val,
                          IF hook.async THEN Len(proms) + 1 ELSE 0, j.b))
               /\ proms' = IF hook.async
                             THEN Append(proms, Promise("pending", NoError, Undefined))
                             ELSE proms
               /\ queue' = Tail(queue)
               /\ ctl' = << Frame("hook", NoClass, NoClass, NoClass, Len(tasks) + 1) >>
  /\ UNCHANGED <<prog, waits, applied, cvars, heap, hostActive, order, hostRet, uses, calls, count>>

AtHook(o) == ctl # << >> /\ Top.kind = "hook" /\ HookHasOp(Top) /\ HookAt(Top).op = o

\* order.push(n)
HookPush ==
  /\ AtHook("push")
  /\ order' = Append(order, HookAt(Top).n)
  /\ tasks' = [tasks EXCEPT ![Top.obj].pc = @ + 1]
  /\ UNCHANGED <<prog, waits, applied, cvars, heap, proms, queue, ctl, hostActive, hostRet, uses, calls, count>>

\* An await where the callback drops the hook's promise, so that the signal
\* is fulfilled as soon as the hook first suspends
SuspendDetached(pq, tid, pid) ==
  LET tk == tasks[tid]
      p1 == Then(pq, pid, Reaction("resume", tid, 0))
      p2 == IF tk.first
              THEN Settle(p1, tk.q, "fulfilled", NoError, Undefined)
              ELSE p1
  IN /\ proms' = p2.proms
     /\ queue' = p2.queue
     /\ tasks' = [tasks EXCEPT ![tid].pc = @ + 1, ![tid].state = "suspended",
                               ![tid].first = FALSE,
                               ![tid].awaited = Append(@, [pc |-> tk.pc, prom |-> pid])]
     /\ ctl' = << >>

\* The hook reaches an await on promise pid (already in pq): it is
\* registered to resume and the activation leaves the stack.  If this is the
\* first await the callback returns the hook's promise to the signal.
Suspend(pq, tid, pid) ==
  LET tk == tasks[tid]
      p1 == Then(pq, pid, Reaction("resume", tid, 0))
      p2 == IF tk.first
              THEN PQ(p1.proms, Append(p1.queue,
                        Job("thenable", NoClass, tk.q, tk.prom, "fulfilled", NoError, Undefined)))
              ELSE p1
  IN /\ proms' = p2.proms
     /\ queue' = p2.queue
     /\ tasks' = [tasks EXCEPT ![tid].pc = @ + 1, ![tid].state = "suspended",
                               ![tid].first = FALSE,
                               ![tid].awaited = Append(@, [pc |-> tk.pc, prom |-> pid])]
     /\ ctl' = << >>

\* await Promise.resolve()
HookYield ==
  /\ AtHook("yield")
  /\ Suspend(New(PQ(proms, queue), "fulfilled", NoError, Undefined), Top.obj, Len(proms) + 1)
  /\ UNCHANGED <<prog, waits, applied, cvars, heap, hostActive, order, hostRet, uses, calls, count>>

\* Injectable.booted / Injectable.disposed: the promise handed to the await.
PhaseTableBootOnly(o) == bootedPromises    \* disposed() reading bootedPromises
PhaseTable(o) == IF o = "booted" THEN bootedPromises ELSE disposedPromises
\* The phase check reporting a missing entry as an inactive phase
PhaseErrorInactive(o, table, Dependency) ==
  IF ~table.present THEN "PhaseNotActive"
  ELSE IF ~MapHas(table.map, Dependency) THEN "PhaseNotActive"
  ELSE NoError

\* The phase check reporting the wrong failure
PhaseErrorUnused(o, table, Dependency) ==
  IF ~table.present THEN "UnusedDependency"
  ELSE IF ~MapHas(table.map, Dependency) THEN "UnusedDependency"
  ELSE NoError

PhaseError(o, table, Dependency) ==
  IF ~table.present THEN "PhaseNotActive"
  ELSE IF ~MapHas(table.map, Dependency) THEN "UnusedDependency"
  ELSE NoError

\* One booted()/disposed() call: where it was made (constructor, boot hook,
\* dispose hook), how far the phases were at that moment, and the promise
\* it returned (err: the error of a promise made by Promise.reject).
LatestPhaseCall(kind) ==
  LET cs == {c \in 1..Len(calls) : calls[c].kind = kind /\ calls[c].signals # << >>}
  IN IF cs = {} THEN 0 ELSE CHOOSE c \in cs : \A d \in cs : d <= c
SignalsSettled(table) ==
  table.present /\ \A i \in 1..Len(table.map) : proms[table.map[i].v].state # "pending"
Waited(op, site, e, p) ==
  [op |-> op.op, Dependency |-> op.cls, site |-> site, err |-> e, prom |-> p,
   bootStarted |-> \E c \in 1..Len(calls) : calls[c].kind = "boot" /\ calls[c].keys # << >>,
   bootOver |-> SignalsSettled(bootedPromises),
   disposeCalled |-> count.dispose > 0,
   disposeOver |-> SignalsSettled(disposedPromises),
   cached |-> MapHas(instances, op.cls),
   call |-> LatestPhaseCall(IF op.op = "booted" THEN "boot" ELSE "dispose")]

\* A constructor calls this.booted(D) / this.disposed(D).
CtorPhaseCall ==
  /\ AtCtorCall
  /\ LET op == CtorCalls[Top.cls][Top.pc - Len(prog.fields[Top.cls])]
         table == PhaseTable(op.op)
         e == PhaseError(op.op, table, op.cls)
     IN /\ proms' = IF e # NoError
                      THEN Append(proms, Promise("rejected", e, Undefined))
                      ELSE proms
        /\ waits' = Append(waits, Waited(op, "ctor", e,
                               IF e # NoError THEN Len(proms) + 1 ELSE MapGet(table.map, op.cls)))
  /\ ctl' = [ctl EXCEPT ![Len(ctl)].pc = @ + 1]
  /\ UNCHANGED <<prog, applied, cvars, heap, queue, tasks, hostActive, order, hostRet, uses, calls, count>>

\* await this.booted(Dependency) / await this.disposed(Dependency)
HookAwaitPhase ==
  /\ ctl # << >> /\ Top.kind = "hook" /\ HookHasOp(Top)
  /\ HookAt(Top).op \in {"booted", "disposed"}
  /\ LET op == HookAt(Top)
         table == PhaseTable(op.op)
         e == PhaseError(op.op, table, op.cls)
     IN /\ IF e # NoError
             THEN Suspend(New(PQ(proms, queue), "rejected", e, Undefined), Top.obj, Len(proms) + 1)
             ELSE Suspend(PQ(proms, queue), Top.obj, MapGet(table.map, op.cls))
        /\ waits' = Append(waits, Waited(op, tasks[Top.obj].phase, e,
                               IF e # NoError THEN Len(proms) + 1 ELSE MapGet(table.map, op.cls)))
  /\ UNCHANGED <<prog, applied, cvars, heap, hostActive, order, hostRet, uses, calls, count>>

\* await new Promise(resolve => setTimeout(resolve, ...)) and the like
HookAwaitIO ==
  /\ AtHook("io")
  /\ Suspend(PQ(Append(proms, [Promise("pending", NoError, Undefined) EXCEPT !.ext = TRUE]),
                queue), Top.obj, Len(proms) + 1)
  /\ UNCHANGED <<prog, waits, applied, cvars, heap, hostActive, order, hostRet, uses, calls, count>>

\* throw new Error(e)
HookThrow ==
  /\ AtHook("throw")
  /\ Unwind(HookAt(Top).cls)
  /\ UNCHANGED <<prog, waits, applied, cvars, heap, hostActive, order, uses, calls, count>>

\* the hook's body ends
HookReturn ==
  /\ ctl # << >> /\ Top.kind = "hook" /\ ~HookHasOp(Top)
  /\ LET r == HookEnd(PQ(proms, queue), tasks, Top.obj, NoError) IN
     /\ proms' = r.pq.proms /\ queue' = r.pq.queue /\ tasks' = r.tasks
  /\ ctl' = << >>
  /\ UNCHANGED <<prog, waits, applied, cvars, heap, hostActive, order, hostRet, uses, calls, count>>

\* A resumption that is dropped once the call's promise has been rejected
RunResumeCancelled ==
  /\ MicroTurn
  /\ Head(queue).kind = "resume"
  /\ LET j == Head(queue) IN
     IF proms[calls[tasks[j.a].call].prom].state = "rejected"
       THEN /\ queue' = Tail(queue)
            /\ UNCHANGED <<proms, tasks, ctl>>
     ELSE IF j.st = "fulfilled"
       THEN /\ ctl' = << Frame("hook", NoClass, NoClass, NoClass, j.a) >>
            /\ tasks' = [tasks EXCEPT ![j.a].state = "running"]
            /\ queue' = Tail(queue)
            /\ UNCHANGED proms
       ELSE LET r == HookEnd(PQ(proms, Tail(queue)), tasks, j.a, j.err) IN
            /\ proms' = r.pq.proms /\ queue' = r.pq.queue /\ tasks' = r.tasks
            /\ UNCHANGED ctl
  /\ UNCHANGED <<prog, waits, applied, cvars, heap, hostActive, order, hostRet, uses, calls, count>>

\* An await that swallows the rejection: the hook continues after it
RunResumeSwallowing ==
  /\ MicroTurn
  /\ Head(queue).kind = "resume"
  /\ LET j == Head(queue) IN
     /\ ctl' = << Frame("hook", NoClass, NoClass, NoClass, j.a) >>
     /\ tasks' = [tasks EXCEPT ![j.a].state = "running"]
     /\ queue' = Tail(queue)
     /\ UNCHANGED proms
  /\ UNCHANGED <<prog, waits, applied, cvars, heap, hostActive, order, hostRet, uses, calls, count>>

\* The awaited promise settled: the hook continues, or the await throws.
RunResume ==
  /\ MicroTurn
  /\ Head(queue).kind = "resume"
  /\ LET j == Head(queue) IN
     IF j.st = "fulfilled"
       THEN /\ ctl' = << Frame("hook", NoClass, NoClass, NoClass, j.a) >>
            /\ tasks' = [tasks EXCEPT ![j.a].state = "running"]
            /\ queue' = Tail(queue)
            /\ UNCHANGED proms
       ELSE LET r == HookEnd(PQ(proms, Tail(queue)), tasks, j.a, j.err) IN
            /\ proms' = r.pq.proms /\ queue' = r.pq.queue /\ tasks' = r.tasks
            /\ UNCHANGED ctl
  /\ UNCHANGED <<prog, waits, applied, cvars, heap, hostActive, order, hostRet, uses, calls, count>>

\* A signal that is fulfilled as soon as the callback has returned
RunThenableEager ==
  /\ MicroTurn
  /\ Head(queue).kind = "thenable"
  /\ LET j == Head(queue)
         pq == Settle(PQ(proms, Tail(queue)), j.a, "fulfilled", NoError, Undefined) IN
     /\ proms' = pq.proms /\ queue' = pq.queue
  /\ UNCHANGED <<prog, waits, applied, cvars, heap, tasks, ctl, hostActive, order, hostRet, uses, calls, count>>

\* NewPromiseResolveThenableJob: hookPromise.then(resolveSignal, rejectSignal)
RunThenable ==
  /\ MicroTurn
  /\ Head(queue).kind = "thenable"
  /\ LET j == Head(queue)
         pq == Then(PQ(proms, Tail(queue)), j.b, Reaction("adopt", j.a, 0)) IN
     /\ proms' = pq.proms /\ queue' = pq.queue
  /\ UNCHANGED <<prog, waits, applied, cvars, heap, tasks, ctl, hostActive, order, hostRet, uses, calls, count>>

\* The signal takes the outcome of the hook's promise.
RunAdopt ==
  /\ MicroTurn
  /\ Head(queue).kind = "adopt"
  /\ LET j == Head(queue)
         pq == Settle(PQ(proms, Tail(queue)), j.a, j.st, j.err, j.val) IN
     /\ proms' = pq.proms /\ queue' = pq.queue
  /\ UNCHANGED <<prog, waits, applied, cvars, heap, tasks, ctl, hostActive, order, hostRet, uses, calls, count>>

\* Promise.race in place of Promise.all: the first settled element decides
RunRace ==
  /\ MicroTurn
  /\ Head(queue).kind = "all"
  /\ LET j == Head(queue)
         pq == Settle(PQ(proms, Tail(queue)), j.a, j.st, j.err, Undefined) IN
     /\ proms' = pq.proms /\ queue' = pq.queue
  /\ UNCHANGED <<prog, waits, applied, cvars, heap, tasks, ctl, hostActive, order, hostRet, uses, calls, count>>

\* Promise.allSettled in place of Promise.all: rejections only count down
RunAllSettled ==
  /\ MicroTurn
  /\ Head(queue).kind = "all"
  /\ LET j == Head(queue)
         left == proms[j.a].cnt - 1
         ps == [proms EXCEPT ![j.a].cnt = left]
         pq == IF left = 0
                 THEN Settle(PQ(ps, Tail(queue)), j.a, "fulfilled", NoError, Undefined)
                 ELSE PQ(ps, Tail(queue)) IN
     /\ proms' = pq.proms /\ queue' = pq.queue
  /\ UNCHANGED <<prog, waits, applied, cvars, heap, tasks, ctl, hostActive, order, hostRet, uses, calls, count>>

\* Promise.all: one element fulfilled (count down) or rejected (reject all).
RunAll ==
  /\ MicroTurn
  /\ Head(queue).kind = "all"
  /\ LET j == Head(queue)
         left == proms[j.a].cnt - 1
         ps == [proms EXCEPT ![j.a].cnt = left]
         pq == IF j.st = "rejected"
                 THEN Settle(PQ(proms, Tail(queue)), j.a, "rejected", j.err, Undefined)
               ELSE IF left = 0
                 THEN Settle(PQ(ps, Tail(queue)), j.a, "fulfilled", NoError, Undefined)
               ELSE PQ(ps, Tail(queue)) IN
     /\ proms' = pq.proms /\ queue' = pq.queue
  /\ UNCHANGED <<prog, waits, applied, cvars, heap, tasks, ctl, hostActive, order, hostRet, uses, calls, count>>

\* bootAll after "await Promise.all(...)": its promise settles alike.
RunBootAllCont ==
  /\ MicroTurn
  /\ Head(queue).kind = "bootAllCont"
  /\ LET j == Head(queue)
         pq == Settle(PQ(proms, Tail(queue)), j.a, j.st, j.err, Undefined) IN
     /\ proms' = pq.proms /\ queue' = pq.queue
  /\ UNCHANGED <<prog, waits, applied, cvars, heap, tasks, ctl, hostActive, order, hostRet, uses, calls, count>>

\* boot after "await this.bootAll()": "return instance", or rethrow.
RunBootCont ==
  /\ MicroTurn
  /\ Head(queue).kind = "bootCont"
  /\ LET j == Head(queue)
         pq == Settle(PQ(proms, Tail(queue)), j.a, j.st, j.err,
                      IF j.st = "fulfilled" THEN j.b ELSE Undefined) IN
     /\ proms' = pq.proms /\ queue' = pq.queue
  /\ UNCHANGED <<prog, waits, applied, cvars, heap, tasks, ctl, hostActive, order, hostRet, uses, calls, count>>

\* dispose after "await Promise.all(...)".
RunDisposeCont ==
  /\ MicroTurn
  /\ Head(queue).kind = "disposeCont"
  /\ LET j == Head(queue)
         pq == Settle(PQ(proms, Tail(queue)), j.a, j.st, j.err, Undefined) IN
     /\ proms' = pq.proms /\ queue' = pq.queue
  /\ UNCHANGED <<prog, waits, applied, cvars, heap, tasks, ctl, hostActive, order, hostRet, uses, calls, count>>

\* A timer or I/O completion resolves the promise a hook is awaiting.
IOComplete(p) ==
  /\ ctl = << >> /\ queue = << >>
  /\ proms[p].ext /\ proms[p].state = "pending"
  /\ LET pq == Settle(PQ(proms, queue), p, "fulfilled", NoError, Undefined) IN
     /\ proms' = pq.proms /\ queue' = pq.queue
  /\ hostActive' = FALSE
  /\ UNCHANGED <<prog, waits, applied, cvars, heap, tasks, ctl, order, hostRet, uses, calls, count>>

\* ---------------------------------------------------------- specification
Next ==
  \/ \E b \in BindPairs : bind(b[1], b[2])
  \/ \E func \in ApplyFuncs : apply(func)
  \/ \E k \in HostUses : HostUse(k)
  \/ HostUseReturn
  \/ \E r \in Roots : boot(r)
  \/ BootResume
  \/ dispose
  \/ EndTurn
  \/ HostWake
  \/ UseCached
  \/ UsePlaceholder
  \/ UseMake
  \/ UseOverflow
  \/ MakeReturn
  \/ MakeThrow
  \/ RunCallback
  \/ HookPush
  \/ HookYield
  \/ HookAwaitPhase
  \/ CtorPhaseCall
  \/ HookAwaitIO
  \/ HookThrow
  \/ HookReturn
  \/ RunResume
  \/ RunThenable
  \/ RunAdopt
  \/ RunAll
  \/ RunBootAllCont
  \/ RunBootCont
  \/ RunDisposeCont
  \/ \E p \in 1..Len(proms) : IOComplete(p)

Spec == Init /\ [][Next]_vars

\* Scheduling: synchronous code runs on, the host's turn ends, the event loop
\* runs every queued microtask, and every timer a hook waits for fires.
Progress ==
  \/ HostUseReturn \/ BootResume \/ EndTurn
  \/ UseCached \/ UsePlaceholder \/ UseMake \/ UseOverflow \/ MakeReturn \/ MakeThrow
  \/ RunCallback \/ HookPush \/ HookYield \/ HookAwaitPhase \/ CtorPhaseCall
  \/ HookAwaitIO \/ HookThrow \/ HookReturn
  \/ RunResume \/ RunThenable \/ RunAdopt \/ RunAll
  \/ RunBootAllCont \/ RunBootCont \/ RunDisposeCont
Timers == \E p \in 1..Len(proms) : IOComplete(p)

\* The programs run under fair scheduling: the hook programs and one graph
\* of each kind (a provider using itself, a provider whose provide() throws,
\* a mutual dependency).
FairPrograms ==
  { Program(GraphFields(<<"A", "B">>, fa, fb), SelfProvide, GraphHooks, NoHooks) :
      fa \in {<<"A">>, <<"N">>, <<"B">>}, fb \in {<<"A">>} }
    \cup {BootOrderProgram, DisposeOrderProgram, TimerProgram, FailProgram,
          RaceProgram, SiblingProgram, PhaseProgram}
    \cup CyclePrograms
FairInit == Init /\ prog \in FairPrograms
FairSpec == FairInit /\ [][Next]_vars /\ WF_vars(Progress) /\ WF_vars(Timers)

\* ------------------------------------------------------------------ claims
LastUse == uses[Len(uses)]
EarlierCached(K) == {i \in 1..Len(uses) : uses[i].Dependency = K /\ uses[i].how = "cached"}

\* C1: once use(K) has returned an instance from the cache, every later
\* use(K), with or without a requester, returns that same instance and
\* leaves the cache, the bindings, the use stack, the pending-circular list
\* and the phase tables as they were.
C1_CachedUseIsStable ==
  [][ (Len(uses') = Len(uses) + 1 /\ LastUse'.how = "cached"
         /\ EarlierCached(LastUse'.Dependency) # {})
        => /\ \A i \in EarlierCached(LastUse'.Dependency) : LastUse'.val = uses[i].val
           /\ UNCHANGED cvars ]_vars

\* C2: the instance cache has at most one entry per identity and an entry,
\* once present, is never replaced by a different value.
C2_CacheNeverOverwritten ==
  [][ /\ \A i, j \in 1..Len(instances') : instances'[i].k = instances'[j].k => i = j
      /\ \A K \in Classes : MapHas(instances, K)
            => MapHas(instances', K) /\ MapGet(instances', K) = MapGet(instances, K) ]_vars

MutualCase ==
  /\ prog.fields["A"] = <<"B">>
  /\ prog.fields["B"] = <<"A">>
  /\ prog.fields["Root"] \in { <<"A", "B">>, <<"B", "A">> }
  /\ bindings = << >>
BootHookStarted == \E t \in 1..Len(tasks) : tasks[t].phase = "boot"
BootFulfilled ==
  \E c \in 1..Len(calls) :
     calls[c].kind = "boot" /\ proms[calls[c].prom].state = "fulfilled"
IsTemp(v) == v # Undefined /\ heap[v].kind = "temp"
\* C3: for mutually dependent services A and B that are both fields of the
\* root, once any boot hook has started and once boot has completed, A's
\* field is the instance cached for B, B's field is the instance cached for
\* A and no placeholder is left in any object, whichever the root uses first.
C3_MutualReferencesResolved ==
  (MutualCase /\ (BootHookStarted \/ BootFulfilled)) =>
    LET a == MapGet(instances, "A")
        b == MapGet(instances, "B")
    IN /\ a # Undefined /\ b # Undefined
       /\ heap[a].fields = << b >>
       /\ heap[b].fields = << a >>
       /\ \A o \in 1..Len(heap) : \A j \in 1..Len(heap[o].fields) : ~IsTemp(heap[o].fields[j])
C3_Witness ==
  /\ MutualCase /\ BootHookStarted /\ BootFulfilled
  /\ prog.fields["Root"] = <<"B", "A">>
  /\ heap[MapGet(instances, "A")].fields = << MapGet(instances, "B") >>
  /\ \E i \in 1..Len(uses) : uses[i].how = "temp"

AwaitOp(t, k) == HookOf(tasks[t]).ops[tasks[t].awaited[k].pc]
PassedAwait(t, k) ==
  /\ AwaitOp(t, k).op \in {"booted", "disposed"}
  /\ k < Len(tasks[t].awaited) \/ tasks[t].state \in {"running", "done"}
HookEnded(t, k) ==
  LET p == tasks[t].awaited[k].prom IN
  /\ proms[p].state = "fulfilled"
  /\ \A d \in 1..Len(tasks) :
        tasks[d].q = p => tasks[d].state = "done" /\ tasks[d].key = AwaitOp(t, k).cls
\* C4: the part of a hook after "await booted(D)" (or "await disposed(D)")
\* runs only when D's signal is fulfilled and the hook invoked for D in that
\* phase has run to its end.
C4_AwaitPassesAfterHookEnds ==
  \A t \in 1..Len(tasks) : \A k \in 1..Len(tasks[t].awaited) :
     PassedAwait(t, k) => HookEnded(t, k)
PassedIn(phase) ==
  \E t \in 1..Len(tasks) : \E k \in 1..Len(tasks[t].awaited) :
     /\ tasks[t].phase = phase /\ PassedAwait(t, k)
     /\ \E d \in 1..Len(tasks) :
           tasks[d].q = tasks[t].awaited[k].prom /\ tasks[d].awaited # << >>
C4_Witness == PassedIn("boot") /\ PassedIn("dispose")

IsPrefix(s1, s2) == Len(s1) <= Len(s2) /\ SubSeq(s2, 1, Len(s1)) = s1
Settled(c) == proms[calls[c].prom].state # "pending"

\* C5: in the boot-order test (D: push 1, suspend, suspend, push 3; root:
\* push 2, await booted(D), push 4) one boot records exactly 1, 2, 3, 4.
C5_BootOrder ==
  prog = BootOrderProgram =>
    /\ IsPrefix(order, <<1, 2, 3, 4>>)
    /\ \A c \in 1..Len(calls) :
          (calls[c].kind = "boot" /\ calls[c].err = NoError /\ Settled(c))
             => order = <<1, 2, 3, 4>> /\ proms[calls[c].prom].state = "fulfilled"
C5_Witness ==
  /\ prog = BootOrderProgram /\ order = <<1, 2, 3, 4>> /\ BootFulfilled

DisposedOnceAfterBoot ==
  /\ count.dispose = 1
  /\ \E b, d \in 1..Len(calls) :
        b < d /\ calls[b].kind = "boot" /\ calls[d].kind = "dispose"
\* C6: in the dispose-order test, boot followed by one dispose() records
\* exactly 1, 2, 3, 4.
C6_DisposeOrder ==
  (prog = DisposeOrderProgram /\ DisposedOnceAfterBoot) =>
    /\ IsPrefix(order, <<1, 2, 3, 4>>)
    /\ \A c \in 1..Len(calls) :
          (calls[c].kind = "dispose" /\ Settled(c))
             => order = <<1, 2, 3, 4>> /\ proms[calls[c].prom].state = "fulfilled"
C6_Witness ==
  /\ prog = DisposeOrderProgram /\ DisposedOnceAfterBoot /\ order = <<1, 2, 3, 4>>
  /\ \E c \in 1..Len(calls) :
        calls[c].kind = "dispose" /\ proms[calls[c].prom].state = "fulfilled"

BoundFirst ==
  /\ Len(calls) >= 1
  /\ calls[1].kind = "bind" /\ calls[1].root = "A" /\ calls[1].impl = "A2"
  /\ \A c \in 1..Len(calls) :
        (calls[c].kind = "bind" /\ calls[c].err = NoError) => calls[c].impl = "A2"
IsA(v, c) == v # Undefined /\ heap[v].kind = "provider" /\ heap[v].cls = c
\* C7: after bind(A, A2) and then boot(Root), the instance cached under A
\* and every value a requester of A received is an object constructed from
\* A2, and no object of class A is ever constructed.
C7_BoundImplementationUsed ==
  BoundFirst =>
    /\ \A o \in 1..Len(heap) : ~IsA(o, "A")
    /\ MapHas(instances, "A") => IsA(MapGet(instances, "A"), "A2")
    /\ \A i \in 1..Len(uses) : uses[i].Dependency = "A" => IsA(uses[i].val, "A2")
C7_Witness ==
  /\ BoundFirst /\ BootFulfilled
  /\ IsA(MapGet(instances, "A"), "A2")
  /\ \E i \in 1..Len(uses) : uses[i].Dependency = "A" /\ uses[i].Dependent = "Root"

LastCall == calls[Len(calls)]
\* C8: bind(K, Impl) fails with AlreadyInstantiated exactly when K has a
\* cache entry, and then changes nothing; otherwise it records the override,
\* replacing an earlier one, and returns the container, before or after boot.
C8_BindContract ==
  [][ count'.bind = count.bind + 1 =>
        /\ LastCall'.kind = "bind"
        /\ hostRet'.op = "bind" /\ hostRet'.err = LastCall'.err
        /\ UNCHANGED <<finalized, instances, instanceProviders, useStack,
                       unresolvedCircular, bootedPromises, disposedPromises,
                       heap, proms, queue, tasks, ctl, uses>>
        /\ IF MapHas(instances, LastCall'.root)
             THEN /\ LastCall'.err = "AlreadyInstantiated"
                  /\ ~hostRet'.self
                  /\ bindings' = bindings
             ELSE /\ LastCall'.err = NoError
                  /\ hostRet'.self
                  /\ MapGet(bindings', LastCall'.root) = LastCall'.impl
                  /\ Cardinality({i \in 1..Len(bindings') : bindings'[i].k = LastCall'.root}) = 1
                  /\ \A K \in Classes \ {LastCall'.root} :
                        /\ MapHas(bindings', K) = MapHas(bindings, K)
                        /\ MapGet(bindings', K) = MapGet(bindings, K) ]_vars
C8_Witness ==
  /\ Len(calls) = 3
  /\ calls[1].kind = "bind" /\ calls[1].err = NoError /\ calls[1].impl = "A2"
  /\ calls[2].kind = "boot"
  /\ calls[3].kind = "bind" /\ calls[3].err = "AlreadyInstantiated" /\ calls[3].impl = "A"
  /\ MapGet(bindings, "A") = "A2"

\* C9: every boot call after the first returns a promise rejected with
\* AlreadyFinalized and constructs nothing, starts no hook and leaves the
\* cache and the boot-phase table unchanged.
C9_SecondBootRejected ==
  [][ (count'.boot = count.boot + 1 /\ count.boot >= 1) =>
        /\ LastCall'.kind = "boot"
        /\ Len(proms') = Len(proms) + 1
        /\ LastCall'.prom = Len(proms')
        /\ proms'[LastCall'.prom].state = "rejected"
        /\ proms'[LastCall'.prom].err = "AlreadyFinalized"
        /\ SubSeq(proms', 1, Len(proms)) = proms
        /\ UNCHANGED <<cvars, heap, queue, tasks, ctl, uses, order>> ]_vars
C9_Witness ==
  \E c1, c2 \in 1..Len(calls) :
     /\ c1 < c2 /\ calls[c1].kind = "boot" /\ calls[c2].kind = "boot"
     /\ proms[calls[c1].prom].state = "pending"
     /\ \E t \in 1..Len(tasks) : tasks[t].state = "suspended"
     /\ proms[calls[c2].prom].err = "AlreadyFinalized"

HookFor(K, phase) ==
  LET provider == MapGet(instanceProviders, MapGet(instances, K)) IN
  IF provider = Undefined THEN NoHook
  ELSE IF phase = "boot" THEN prog.boot[heap[provider].cls]
  ELSE prog.dispose[heap[provider].cls]
\* C10: when the promise returned by boot(Root) is fulfilled its value is
\* the instance cached for Root, and for every identity cached when the boot
\* phase started the signal is fulfilled and the boot hook has completed.
C10_BootFulfilledAfterAllHooks ==
  \A c \in 1..Len(calls) :
     (calls[c].kind = "boot" /\ proms[calls[c].prom].state = "fulfilled") =>
        /\ proms[calls[c].prom].val = MapGet(instances, calls[c].root)
        /\ proms[calls[c].prom].val # Undefined
        /\ calls[c].keys # << >>
        /\ \A i \in 1..Len(calls[c].keys) :
              LET K == calls[c].keys[i] IN
              /\ proms[MapGet(bootedPromises.map, K)].state = "fulfilled"
              /\ HookFor(K, "boot").present =>
                    \E t \in 1..Len(tasks) :
                       /\ tasks[t].key = K /\ tasks[t].phase = "boot"
                       /\ tasks[t].state = "done"
        /\ \A t \in 1..Len(tasks) : tasks[t].phase = "boot" => tasks[t].state = "done"
C10_Witness ==
  /\ BootFulfilled
  /\ Len(bootedPromises.map) >= 2
  /\ \E t \in 1..Len(tasks) :
        tasks[t].phase = "boot" /\ tasks[t].state = "done" /\ Len(tasks[t].awaited) >= 2

\* Boot and dispose calls that started a phase, and their failed hooks.
PhaseCalls ==
  {c \in 1..Len(calls) : calls[c].kind \in {"boot", "dispose"} /\ calls[c].err = NoError}
FailedIn(c) == {t \in 1..Len(tasks) : tasks[t].call = c /\ tasks[t].state = "failed"}
FirstFailed(c) ==
  CHOOSE t \in FailedIn(c) : \A u \in FailedIn(c) : tasks[t].rank <= tasks[u].rank
CallState(c) == proms[calls[c].prom].state
CallErr(c) == proms[calls[c].prom].err
Idle == ctl = << >> /\ queue = << >>

\* C11 (as stated): when a hook of a phase has failed, the promise of that
\* boot/dispose call is not fulfilled, and once rejected it carries the error
\* of the hook that failed first in time.
C11_FirstFailureInTime ==
  \A c \in PhaseCalls :
     FailedIn(c) # {} =>
        /\ CallState(c) # "fulfilled"
        /\ CallState(c) = "rejected" => CallErr(c) = tasks[FirstFailed(c)].err

\* C11 (amended): when a hook of a phase has failed, the promise of that
\* boot/dispose call is never fulfilled, it is rejected by the time the
\* microtask queue has drained, and its error is the error of a failed hook
\* of that phase whose signal is rejected with it (not necessarily the hook
\* that failed first).
C11_FailurePropagates ==
  \A c \in PhaseCalls :
     FailedIn(c) # {} =>
        /\ CallState(c) # "fulfilled"
        /\ Idle => CallState(c) = "rejected"
        /\ CallState(c) = "rejected" =>
              \E t \in FailedIn(c) :
                 /\ CallErr(c) = tasks[t].err
                 /\ proms[tasks[t].q].state = "rejected"
                 /\ proms[tasks[t].q].err = tasks[t].err
C11_Witness ==
  /\ prog = RaceProgram
  /\ \E b, d \in PhaseCalls :
        /\ calls[b].kind = "boot" /\ calls[d].kind = "dispose"
        /\ CallState(b) = "rejected" /\ CallErr(b) = "E2"
        /\ Cardinality(FailedIn(b)) = 2 /\ tasks[FirstFailed(b)].err = "E1"
        /\ CallState(d) = "rejected" /\ FailedIn(d) # {}

TasksOf(c) == {t \in 1..Len(tasks) : tasks[t].call = c}
PhaseOf(c) == IF calls[c].kind = "boot" THEN "boot" ELSE "dispose"
CallbacksLeft(c) ==
  \E i \in 1..Len(queue) : queue[i].kind \in {"bootcb", "disposecb"} /\ queue[i].val = c
NoPendingIO == \A p \in 1..Len(proms) : proms[p].ext => proms[p].state # "pending"
LastAwaited(t) == tasks[t].awaited[Len(tasks[t].awaited)].prom
Ended(t) == tasks[t].state \in {"done", "failed"}
OwnThrow(t) ==
  LET ops == HookOf(tasks[t]).ops IN
  tasks[t].pc <= Len(ops) /\ ops[tasks[t].pc].op = "throw"

\* C12: hooks are never cancelled.  Every identity of the phase that has a
\* hook gets its hook invoked once all the phase callbacks have run, whether
\* or not another hook failed; a hook fails only by its own throw or by an
\* await of a rejected promise; and when nothing is left to run and no timer
\* is pending, every hook of the phase has ended or waits on a promise that
\* is still pending, also when the call's promise was rejected long before.
C12_NoCancellation ==
  \A c \in PhaseCalls :
     /\ ~CallbacksLeft(c) =>
           \A i \in 1..Len(calls[c].keys) :
              HookFor(calls[c].keys[i], PhaseOf(c)).present =>
                 \E t \in TasksOf(c) : tasks[t].key = calls[c].keys[i]
     /\ \A t \in TasksOf(c) :
           /\ tasks[t].state = "failed" =>
                 \/ OwnThrow(t)
                 \/ tasks[t].awaited # << >> /\ proms[LastAwaited(t)].state = "rejected"
           /\ (Idle /\ NoPendingIO /\ ~Ended(t)) =>
                 /\ tasks[t].state = "suspended"
                 /\ proms[LastAwaited(t)].state = "pending"
C12_Witness ==
  /\ prog = SiblingProgram
  /\ \E c \in PhaseCalls :
        /\ calls[c].kind = "dispose" /\ CallState(c) = "rejected"
        /\ \E t, u \in TasksOf(c) :
              /\ tasks[t].state = "failed"
              /\ tasks[u].state = "done" /\ tasks[u].rank > tasks[t].rank
              /\ tasks[u].awaited # << >>
  /\ \E b \in PhaseCalls :
        /\ calls[b].kind = "boot" /\ CallState(b) = "rejected"
        /\ \E u \in TasksOf(b) : tasks[u].state = "done" /\ tasks[u].awaited # << >>
  /\ order = <<1, 2, 1, 2>>

\* A booted()/disposed() call that returned a promise made by Promise.reject.
Refused(w, e) ==
  /\ w.err = e
  /\ proms[w.prom].state = "rejected" /\ proms[w.prom].err = e
  /\ \A c \in 1..Len(calls) : \A i \in 1..Len(calls[c].signals) : calls[c].signals[i] # w.prom
WaitsOf(o) == {i \in 1..Len(waits) : waits[i].op = o}

\* C13: booted(D) called before the boot phase has started (from a
\* constructor during resolution, from a hook of a container that was never
\* booted) and disposed(D) called before dispose() has been called (from a
\* constructor, from a boot hook) return a promise rejected with
\* PhaseNotActive, whatever D is.
C13_RejectedBeforePhase ==
  /\ \A i \in WaitsOf("booted") :
        ~waits[i].bootStarted => Refused(waits[i], "PhaseNotActive")
  /\ \A i \in WaitsOf("disposed") :
        ~waits[i].disposeCalled => Refused(waits[i], "PhaseNotActive")
C13_Witness ==
  /\ \E i \in WaitsOf("booted") :
        waits[i].site = "ctor" /\ Refused(waits[i], "PhaseNotActive")
  /\ \E i \in WaitsOf("disposed") :
        waits[i].site = "ctor" /\ Refused(waits[i], "PhaseNotActive")
  /\ \E i \in WaitsOf("disposed") :
        /\ waits[i].site = "boot" /\ waits[i].cached
        /\ Refused(waits[i], "PhaseNotActive")
  /\ \E t \in 1..Len(tasks) : tasks[t].state = "failed" /\ tasks[t].err = "PhaseNotActive"

\* The call was answered by Promise.reject, not with a signal of the table.
Refusal(w) == w.err # NoError /\ Refused(w, w.err)

\* C14: booted(D) called outside the active boot phase, be it before the
\* phase started or after every boot signal has settled (for instance from
\* a dispose hook), returns a rejected promise and never a boot signal; the
\* same for disposed(D) and the dispose phase.
C14_RejectedOutsidePhase ==
  /\ \A i \in WaitsOf("booted") :
        (~waits[i].bootStarted \/ waits[i].bootOver) => Refusal(waits[i])
  /\ \A i \in WaitsOf("disposed") :
        (~waits[i].disposeCalled \/ waits[i].disposeOver) => Refusal(waits[i])

\* The call was made while its phase was active.
Active(w) ==
  IF w.op = "booted" THEN w.bootStarted /\ ~w.bootOver
  ELSE w.disposeCalled /\ ~w.disposeOver
KeyIndex(c, K) == {i \in 1..Len(calls[c].keys) : calls[c].keys[i] = K}
BootCalls == {c \in 1..Len(calls) : calls[c].kind = "boot" /\ calls[c].keys # << >>}
ReturnedSignal(w, c) ==
  /\ w.err = NoError
  /\ \E i \in KeyIndex(c, w.Dependency) : w.prom = calls[c].signals[i]

\* C15 (as stated): during an active boot (dispose) phase booted(D)
\* (disposed(D)) is rejected with UnusedDependency if D was never resolved,
\* and returns D's signal of that phase for every D that was resolved during
\* the root resolution.
C15_SignalForResolved ==
  \A i \in 1..Len(waits) :
     LET w == waits[i] IN
     Active(w) =>
        /\ ~w.cached => Refused(w, "UnusedDependency")
        /\ (w.cached /\ w.bootStarted
              /\ \E b \in BootCalls : KeyIndex(b, w.Dependency) # {})
             => w.err = NoError /\ w.call # 0 /\ ReturnedSignal(w, w.call)

\* C15 (amended): during an active boot (dispose) phase booted(D)
\* (disposed(D)) returns D's signal for every D that was in the instance
\* cache when that phase started, and is rejected with UnusedDependency for
\* every other D, in particular for a D that was never resolved.
C15_SignalForPhaseKeys ==
  \A i \in 1..Len(waits) :
     LET w == waits[i] IN
     Active(w) =>
        /\ w.call # 0
        /\ ~w.cached => KeyIndex(w.call, w.Dependency) = {}
        /\ IF KeyIndex(w.call, w.Dependency) = {}
             THEN Refused(w, "UnusedDependency")
             ELSE ReturnedSignal(w, w.call)
C15_Witness ==
  /\ \E i \in WaitsOf("booted") :
        Active(waits[i]) /\ ReturnedSignal(waits[i], waits[i].call) /\ waits[i].site = "boot"
  /\ \E i \in WaitsOf("booted") :
        Active(waits[i]) /\ ~waits[i].cached /\ Refused(waits[i], "UnusedDependency")
  /\ \E i \in WaitsOf("disposed") :
        Active(waits[i]) /\ ReturnedSignal(waits[i], waits[i].call) /\ waits[i].site = "dispose"
  /\ \E i \in WaitsOf("disposed") :
        Active(waits[i]) /\ ~waits[i].cached /\ Refused(waits[i], "UnusedDependency")

DisposeCalls == {c \in PhaseCalls : calls[c].kind = "dispose"}
FirstBoot(b) == calls[b].kind = "boot" /\ \A a \in 1..(b - 1) : calls[a].kind # "boot"

\* C16: dispose() on a container whose instance cache is empty starts no
\* hook, its promise is never rejected and is fulfilled once the pending
\* microtasks have run, and the container is not finalized by it: the first
\* boot() made afterwards is accepted.
C16_DisposeEmpty ==
  \A c \in DisposeCalls :
     calls[c].keys = << >> =>
        /\ TasksOf(c) = {}
        /\ CallState(c) # "rejected"
        /\ Idle => CallState(c) = "fulfilled"
        /\ (\A b \in 1..Len(calls) : calls[b].kind # "boot") => ~finalized
        /\ \A b \in (c + 1)..Len(calls) : FirstBoot(b) => calls[b].err = NoError
C16_Witness ==
  /\ Len(calls) = 2
  /\ calls[1].kind = "dispose" /\ calls[1].keys = << >> /\ CallState(1) = "fulfilled"
  /\ calls[2].kind = "boot" /\ calls[2].err = NoError /\ CallState(2) = "fulfilled"
  /\ \E t \in TasksOf(2) : tasks[t].state = "done"

\* C17: one dispose() call starts at most one hook per identity and only for
\* identities in the cache at the time of the call; once its callbacks have
\* run every such identity whose provider has a dispose hook has exactly one
\* activation, also after a boot that failed with a hook error; the promise
\* of the call is fulfilled only when every one of these activations has
\* completed and every signal is fulfilled, and it is fulfilled once they all
\* have and the pending microtasks have run.
C17_DisposeOncePerIdentity ==
  \A c \in DisposeCalls :
     /\ \A t \in TasksOf(c) : tasks[t].phase = "dispose" /\ KeyIndex(c, tasks[t].key) # {}
     /\ \A t, u \in TasksOf(c) : tasks[t].key = tasks[u].key => t = u
     /\ ~CallbacksLeft(c) =>
           \A i \in 1..Len(calls[c].keys) :
              HookFor(calls[c].keys[i], "dispose").present =>
                 Cardinality({t \in TasksOf(c) : tasks[t].key = calls[c].keys[i]}) = 1
     /\ CallState(c) = "fulfilled" =>
           /\ ~CallbacksLeft(c)
           /\ \A t \in TasksOf(c) : tasks[t].state = "done"
           /\ \A i \in 1..Len(calls[c].signals) : proms[calls[c].signals[i]].state = "fulfilled"
     /\ (Idle /\ ~CallbacksLeft(c) /\ \A t \in TasksOf(c) : tasks[t].state = "done")
           => CallState(c) = "fulfilled"
C17_Witness ==
  /\ prog = FailProgram
  /\ \E b \in PhaseCalls, c \in DisposeCalls :
        /\ calls[b].kind = "boot" /\ b < c
        /\ CallState(b) = "rejected" /\ FailedIn(b) # {}
        /\ CallState(c) = "fulfilled"
        /\ Cardinality(TasksOf(c)) = 2
        /\ \A t \in TasksOf(c) : tasks[t].state = "done"

InCycle(t) == tasks[t].cls \in CycleClasses
BootPhaseCalls == {c \in PhaseCalls : calls[c].kind = "boot"}

\* C18 (as stated): when the booted waits form a cycle the hooks of the
\* cycle never end and the promise returned by boot stays pending for ever.
C18_CycleNeverSettles ==
  prog \in CyclePrograms =>
     /\ \A t \in 1..Len(tasks) : InCycle(t) => ~Ended(t)
     /\ \A c \in BootPhaseCalls : CallState(c) = "pending"

\* C18 (amended): when the booted waits form a cycle the hooks of the cycle
\* never end and the promise returned by boot is never fulfilled; it stays
\* pending for ever unless a hook outside the cycle fails, in which case it
\* is rejected with that hook's error.
C18_CycleNeverCompletes ==
  prog \in CyclePrograms =>
     /\ \A t \in 1..Len(tasks) : InCycle(t) => ~Ended(t)
     /\ \A c \in BootPhaseCalls :
           /\ CallState(c) # "fulfilled"
           /\ CallState(c) = "rejected" =>
                 \E t \in FailedIn(c) : ~InCycle(t) /\ CallErr(c) = tasks[t].err
           /\ ~prog.boot["D"].present => CallState(c) = "pending"
C18_Witness ==
  /\ prog = CycleProgram(NoHook)
  /\ Idle /\ ~hostActive
  /\ order = <<3>>
  /\ \A k \in {"A", "B", "Root"} :
        \E t \in 1..Len(tasks) :
           /\ tasks[t].cls = k /\ tasks[t].state = "suspended"
           /\ proms[LastAwaited(t)].state = "pending"
  /\ \E c \in BootPhaseCalls :
        /\ CallState(c) = "pending"
        /\ proms[calls[c].signals[3]].state = "fulfilled"

\* The wait relation of a program: the hook of class c in phase ph waits for
\* the signal (boot, d) if it awaits booted(d), for (dispose, d) if it awaits
\* disposed(d).
Phases == {"boot", "dispose"}
Signals == Phases \X Classes
Impls(K) == {K} \cup {b[2] : b \in {x \in BindPairs : x[1] = K}}
HooksIn(n) == {IF n[1] = "boot" THEN prog.boot[c] ELSE prog.dispose[c] : c \in Impls(n[2])}
WaitsFor(n, m) ==
  \E h \in HooksIn(n) : \E i \in 1..Len(h.ops) :
     /\ h.ops[i].cls = m[2]
     /\ h.ops[i].op = (IF m[1] = "boot" THEN "booted" ELSE "disposed")
Waiters == {n \in Signals : \E m \in Signals : WaitsFor(n, m)}
\* No cycle: every non-empty set of waiting signals has a member that waits
\* for none of the set.
WaitsAcyclic ==
  \A S \in (SUBSET Waiters) \ {{}} : \E n \in S : \A m \in S : ~WaitsFor(n, m)

CallSettled(c) ==
  c \in 1..Len(calls) /\ calls[c].prom # 0 /\ CallState(c) # "pending"

\* C19: when the waits of the program form no cycle and every timer fires,
\* then under fair scheduling of synchronous code and microtasks the promise
\* of every boot and dispose call is eventually settled.
C19_AcyclicPhasesSettle ==
  \A c \in 1..MaxHostCalls :
     (WaitsAcyclic /\ c \in PhaseCalls) ~> CallSettled(c)
C19_Witness ==
  /\ prog = TimerProgram /\ WaitsAcyclic
  /\ Len(calls) = 2 /\ calls[1].kind = "boot" /\ calls[2].kind = "dispose"
  /\ CallState(1) = "fulfilled" /\ CallState(2) = "fulfilled"
  /\ \A t \in 1..Len(tasks) : tasks[t].state = "done" /\ tasks[t].awaited # << >>
  /\ Len(tasks) = 4


\* ---------------------------------------------------------------- apply
ApplyStep == count'.apply # count.apply

\* C20: a step of apply(func) invokes func exactly once, in that same step,
\* with the container as its only argument, returns the container whatever
\* func returned, and changes nothing else: no container field (finalized
\* included), no object, promise, microtask, hook or resolution record.  No
\* other step invokes a function handed to apply.
C20_ApplyOnlyCallsFunc ==
  [][ /\ ApplyStep =>
           \E func \in ApplyFuncs :
              /\ applied' = Append(applied, Invoked(func, <<ThisContainer>>))
              /\ calls' = Append(calls, Call("apply", func, NoClass, 0, NoError))
              /\ hostRet' = Ret("apply", NoError, Undefined, TRUE)
              /\ count' = [count EXCEPT !.apply = @ + 1]
              /\ UNCHANGED <<cvars, heap, proms, queue, tasks, ctl, order, uses, waits>>
      /\ applied' # applied => ApplyStep
    ]_vars
C20_Witness ==
  /\ Len(calls) = 1 /\ calls[1].kind = "apply" /\ calls[1].root = "sigintHandler"
  /\ applied = << Invoked("sigintHandler", <<ThisContainer>>) >>
  /\ FuncResult("sigintHandler") # ThisContainer
  /\ hostRet.op = "apply" /\ hostRet.self
  /\ ~finalized /\ instances = << >> /\ uses = << >>


\* ------------------------------------------------------- provided values
ProvidesValue(K) == prog.provide[Implementation(K)] = "value"
BootValue == proms[calls[Len(calls)].prom].val

\* C21: every use of a class made by valueProvider(v) returns v itself, the
\* first time and every later time; what is cached for it and stored in the
\* requesters' fields is v, never the provider object, which is only indexed
\* under v.
C21_ValueProviderReturnsValue ==
  /\ \A i \in 1..Len(uses) :
        ProvidesValue(uses[i].Dependency) =>
          uses[i].val = ExtValue /\ heap[uses[i].val].kind = "value"
  /\ \A K \in Classes :
        (ProvidesValue(K) /\ MapHas(instances, K)) =>
          /\ MapGet(instances, K) = ExtValue
          /\ MapGet(instanceProviders, ExtValue) # ExtValue
          /\ heap[MapGet(instanceProviders, ExtValue)].kind = "provider"
          /\ prog.provide[heap[MapGet(instanceProviders, ExtValue)].cls] = "value"
  /\ \A o \in 1..Len(heap) : \A j \in 1..Len(heap[o].fields) :
        (heap[o].kind = "provider" /\ heap[o].cls \in {"Root", "A", "A2"}
           /\ prog.fields[heap[o].cls][j] = "V") => heap[o].fields[j] = ExtValue
C21_Witness ==
  /\ prog = ValueProgram
  /\ \E i, j \in 1..Len(uses) :
        /\ i < j
        /\ uses[i] = Used("V", "Root", ExtValue, "made")
        /\ uses[j] = Used("V", "A", ExtValue, "cached")
  /\ Len(calls) = 1 /\ calls[1].kind = "boot" /\ CallState(1) = "fulfilled"
  /\ heap[BootValue].cls = "Root" /\ heap[BootValue].fields[2] = ExtValue
  /\ heap[heap[BootValue].fields[3]].fields = << ExtValue >>


\* ----------------------------------------------------------- placeholders
\* use(D, R) is about to run with D not cached and D on the use stack.
CycleDetected ==
  /\ AtUse
  /\ MapGet(instances, UseDependency) = Undefined
  /\ Contains(useStack, UseDependency) /\ UseDependent # NoClass
Providers(h) == {o \in 1..Len(h) : h[o].kind = "provider"}
Temps(h) == {o \in 1..Len(h) : h[o].kind = "temp"}

\* C22: a use(D, R) with D not cached and D on the use stack returns a new
\* empty object that is no earlier placeholder, appends exactly the record
\* {placeholder, R, D} to the pending-circular list, constructs no provider
\* (no object other than the placeholder, no constructor frame) and leaves
\* the instance cache, the provider index and the use stack unchanged; the
\* only other change is the requester receiving the placeholder.
C22_CycleYieldsPlaceholder ==
  [][ CycleDetected =>
        LET temp == Len(heap) + 1 IN
        /\ Len(heap') = Len(heap) + 1
        /\ heap'[temp] = Obj("temp", NoClass)
        /\ temp \notin Temps(heap)
        /\ \A i \in 1..Len(unresolvedCircular) : unresolvedCircular[i].temp # temp
        /\ \A i \in 1..Len(uses) : uses[i].val # temp
        /\ unresolvedCircular' = Append(unresolvedCircular,
              [temp |-> temp, Dependent |-> UseDependent, Dependency |-> UseDependency])
        /\ uses' = Append(uses, Used(UseDependency, UseDependent, temp, "temp"))
        /\ Providers(heap') = Providers(heap)
        /\ Len(ctl') = Len(ctl)
        /\ \A o \in 1..Len(heap) :
              \/ heap'[o] = heap[o]
              \/ /\ Top.kind = "ctor" /\ o = Top.obj
                 /\ \E n \in 1..2 :
                      heap'[o] = [heap[o] EXCEPT !.fields = @ \o [i \in 1..n |-> temp]]
        /\ UNCHANGED <<instances, instanceProviders, useStack, bindings, finalized,
                       bootedPromises, disposedPromises, proms, queue>>
    ]_vars
C22_Witness ==
  /\ Len(unresolvedCircular) = 2
  /\ unresolvedCircular[1].temp # unresolvedCircular[2].temp
  /\ unresolvedCircular[1].Dependency = "B" /\ unresolvedCircular[1].Dependent = "A"
  /\ unresolvedCircular[2].Dependency = "B" /\ unresolvedCircular[2].Dependent = "A"
  /\ ctl # << >> /\ Top.kind = "ctor" /\ Top.cls = "A"
  /\ heap[Top.obj].fields = << unresolvedCircular[1].temp, unresolvedCircular[2].temp >>
  /\ ~MapHas(instances, "B") /\ Contains(useStack, "B")


\* --------------------------------------------------- patching before hooks
BootTasks == {t \in 1..Len(tasks) : tasks[t].phase = "boot"}
BootHookRunning ==
  ctl # << >> /\ Base.kind = "hook" /\ tasks[Base.obj].phase = "boot"
\* boot() has returned from use(Root) and is about to patch and start the phase.
AtPatch == ctl # << >> /\ Top.kind = "boot" /\ Top.pc = 1
\* The pending records are all for identities that were not cached when the
\* boot phase started.
OnlyLateRecords ==
  \A c \in BootCalls : \A i \in 1..Len(unresolvedCircular) :
     KeyIndex(c, unresolvedCircular[i].Dependency) = {}

\* C23 (as stated): whenever a boot hook is executing, the pending-circular
\* list is empty.
C23_EmptyWhileHooksRun == BootHookRunning => unresolvedCircular = << >>

\* C23 (amended): patching runs in the step that follows the root resolution,
\* when no boot hook has been invoked, and leaves the list empty; once the
\* phase has started the list holds only records made by a later use(), for
\* identities that were not cached when the phase started.
C23_PatchedBeforeHooks ==
  [][ /\ AtPatch =>
           /\ BootTasks = {} /\ tasks' = tasks
           /\ heap' = resolveCircular(heap, unresolvedCircular)
           /\ unresolvedCircular' = << >>
      /\ BootTasks # {} => BootCalls # {}
      /\ OnlyLateRecords /\ OnlyLateRecords'
    ]_vars
C23_Witness ==
  /\ prog = LazyProgram /\ BootHookRunning
  /\ Len(unresolvedCircular) = 1
  /\ unresolvedCircular[1].Dependency = "A" /\ unresolvedCircular[1].Dependent = "B"
  /\ MapHas(instances, "B")
  /\ heap[MapGet(instances, "B")].fields = << unresolvedCircular[1].temp >>
  /\ tasks[Base.obj].cls = "Root" /\ Len(ctl) = 1 /\ count.use = 0
  /\ \A o \in 1..Len(heap) : \A j \in 1..Len(heap[o].fields) :
        IsTemp(heap[o].fields[j]) => heap[o].fields[j] = unresolvedCircular[1].temp


\* ------------------------------------------------- hooks start after the table
TableOf(phase) == IF phase = "boot" THEN bootedPromises ELSE disposedPromises
\* The first hook of a phase call has just been invoked.
FirstHookStarting(t) ==
  /\ ctl = << Frame("hook", NoClass, NoClass, NoClass, t) >>
  /\ tasks[t].pc = 1 /\ tasks[t].first /\ tasks[t].awaited = << >>
  /\ TasksOf(tasks[t].call) = {t}
KeysOf(c) == {calls[c].keys[i] : i \in 1..Len(calls[c].keys)}
InPhaseKeys(w, cs) ==
  \E c \in 1..Len(cs) :
     /\ cs[c].kind = (IF w.op = "booted" THEN "boot" ELSE "dispose")
     /\ \E i \in 1..Len(cs[c].keys) : cs[c].keys[i] = w.Dependency
OwnPhase(w) ==
  (w.op = "booted" /\ w.site = "boot") \/ (w.op = "disposed" /\ w.site = "dispose")

\* C24 (as stated): when the first hook of a phase starts, the table of that
\* phase has a signal for every identity in the instance cache.
C24_TableCoversCache ==
  \A t \in 1..Len(tasks) :
     FirstHookStarting(t) =>
        MapKeys(instances) \subseteq MapKeys(TableOf(tasks[t].phase).map)

\* C24 (amended): boot() and dispose() invoke no hook themselves: the step in
\* which they return leaves the hooks as they were and has built the table
\* with one signal per identity cached at that moment (for boot, after
\* patching); every hook is invoked from the microtask queue, when the table
\* holds a signal for every identity cached when its phase call returned;
\* booted(D) in a boot hook and disposed(D) in a dispose hook are not refused
\* for such a D.
C24_HooksStartAfterTable ==
  [][ /\ AtPatch =>
           /\ ctl' = << >> /\ tasks' = tasks /\ TasksOf(Len(calls)) = {}
           /\ unresolvedCircular' = << >>
           /\ bootedPromises'.present
           /\ MapKeys(bootedPromises'.map) = MapKeys(instances)
           /\ proms'[Top.obj].state = "pending"
      /\ count'.dispose # count.dispose =>
           /\ tasks' = tasks /\ ctl' = << >>
           /\ disposedPromises'.present
           /\ MapKeys(disposedPromises'.map) = MapKeys(instances)
           /\ {calls'[Len(calls')].keys[i] : i \in 1..Len(instances)} = MapKeys(instances)
      /\ Len(tasks') > Len(tasks) =>
           LET nt == tasks'[Len(tasks')] IN
           /\ MicroTurn /\ Len(tasks') = Len(tasks) + 1
           /\ TableOf(nt.phase).present
           /\ KeysOf(nt.call) \subseteq MapKeys(TableOf(nt.phase).map)
           /\ nt.key \in KeysOf(nt.call)
      /\ \A i \in 1..Len(waits') :
           (OwnPhase(waits'[i]) /\ InPhaseKeys(waits'[i], calls')) => waits'[i].err = NoError
    ]_vars
C24_Witness ==
  /\ prog = BootOrderProgram
  /\ \E t \in 1..Len(tasks) :
        /\ FirstHookStarting(t) /\ tasks[t].phase = "boot" /\ tasks[t].key = "D"
        /\ MapKeys(bootedPromises.map) = {"D", "Root", "A"}
        /\ MapKeys(instances) = {"D", "Root", "A"}
        /\ calls[tasks[t].call].kind = "boot" /\ CallState(tasks[t].call) = "pending"


\* -------------------------------------------------------- hook start order
\* Position of identity K among the keys of phase call c (0: not a key).
KeyPos(c, K) == IF KeyIndex(c, K) = {} THEN 0 ELSE CHOOSE i \in KeyIndex(c, K) : TRUE
CachePos(K) == IF MapHas(instances, K) THEN CHOOSE i \in 1..Len(instances) : instances[i].k = K ELSE 0
\* The uses that finished the first construction of their identity.
FirstMade ==
  {i \in 1..Len(uses) :
     /\ uses[i].how = "made"
     /\ \A j \in 1..(i - 1) : ~(uses[j].how = "made" /\ uses[j].Dependency = uses[i].Dependency)}
\* Identity uses[j].Dependency was being constructed when use i finished.
UnderConstruction(j, i) == i < j
\* The activation has continued after an await.
Resumed(t) ==
  /\ tasks[t].awaited # << >>
  /\ tasks[t].state # "suspended" \/ Len(tasks[t].awaited) > 1

\* C25: the hooks of one phase call are invoked in the order of the instance
\* cache, which is the order in which the first constructions finished, so
\* that an identity constructed at the request of a provider under
\* construction comes before that requester; and no hook of the call continues after an await
\* while a callback of the call is still waiting in the microtask queue.
C25_HooksStartInCacheOrder ==
  /\ \A t, u \in 1..Len(tasks) :
        (t < u /\ tasks[t].call = tasks[u].call) =>
           /\ KeyPos(tasks[t].call, tasks[t].key) # 0
           /\ KeyPos(tasks[t].call, tasks[t].key) < KeyPos(tasks[u].call, tasks[u].key)
  /\ \A c \in 1..Len(calls) : \A i \in 1..Len(calls[c].keys) :
        CachePos(calls[c].keys[i]) = i
  /\ Cardinality(FirstMade) = Len(instances)
  /\ \A i, j \in FirstMade :
        i < j => CachePos(uses[i].Dependency) < CachePos(uses[j].Dependency)
  /\ \A i, j \in FirstMade :
        (uses[i].Dependent = uses[j].Dependency /\ UnderConstruction(j, i)) =>
           CachePos(uses[i].Dependency) < CachePos(uses[i].Dependent)
  /\ \A t \in 1..Len(tasks) : Resumed(t) => ~CallbacksLeft(tasks[t].call)
C25_Witness ==
  /\ prog = BootOrderProgram /\ Len(calls) = 1 /\ calls[1].keys = <<"D", "Root">>
  /\ Len(tasks) = 2 /\ tasks[1].key = "D" /\ tasks[2].key = "Root"
  /\ ctl # << >> /\ Base.obj = 1 /\ Resumed(1) /\ Len(tasks[1].awaited) = 1
  /\ tasks[2].state = "suspended" /\ order = <<1, 2>>


\* ------------------------------------------------------- hook and provider
\* C26: every hook activation runs the hook of a provider object of the
\* class constructed for its identity, with the value cached for that
\* identity, and no provider object has its hook invoked twice in one phase
\* call.
C26_HookOfOwnProvider ==
  \A t \in 1..Len(tasks) :
     /\ heap[tasks[t].obj].kind = "provider"
     /\ heap[tasks[t].obj].cls = Implementation(tasks[t].key)
     /\ \A u \in 1..Len(tasks) :
           (u # t /\ tasks[u].call = tasks[t].call) => tasks[u].obj # tasks[t].obj


\* ------------------------------------------------------ cycles under binding
BoundMutualCase ==
  /\ prog.fields["A"] = <<"B">>
  /\ prog.fields["B"] = <<"A">>
  /\ prog.fields["Root"] \in RootFields
  /\ Implementation("A") = "A2"
  /\ count.use = 0

\* C27: with A bound to A2 and A and B using each other, once boot(Root) is
\* fulfilled exactly one A2 has been constructed, B's field is the instance
\* cached under A, the field of that instance is the instance cached under
\* B, and no field of any object holds a placeholder.
C27_BoundCycleResolved ==
  (BoundMutualCase /\ BootFulfilled) =>
    LET a == MapGet(instances, "A")
        b == MapGet(instances, "B")
    IN /\ Cardinality({o \in Providers(heap) : heap[o].cls = "A2"}) = 1
       /\ IsA(a, "A2") /\ IsA(b, "B")
       /\ heap[b].fields = << a >>
       /\ heap[a].fields = << b >>
       /\ \A o \in 1..Len(heap) : \A j \in 1..Len(heap[o].fields) : ~IsTemp(heap[o].fields[j])

\* Field j of object o is the one resolveCircular overwrites for record r:
\* o is the instance cached for the requester and j is the first of its
\* fields, in declaration order, that holds the record's placeholder.
PatchedBy(r, o, j) ==
  /\ MapGet(instances, r.Dependent) = o
  /\ heap[o].fields[j] = r.temp
  /\ \A k \in 1..(j - 1) : heap[o].fields[k] # r.temp
PatchRecords(o, j) ==
  {i \in 1..Len(unresolvedCircular) : PatchedBy(unresolvedCircular[i], o, j)}

\* C28: in the patching step, each pending record overwrites at most one
\* field, the first field of the requester's cached instance that holds the
\* record's placeholder, with the instance cached for the requested
\* identity; every other field of every object, and every object's class and
\* kind, is unchanged (so a second field holding the same placeholder keeps
\* it, and two placeholders of two use calls are both replaced).
C28_PatchesFirstFieldOnly ==
  [][AtPatch =>
       /\ Len(heap') = Len(heap)
       /\ \A o \in 1..Len(heap) :
            /\ heap'[o].cls = heap[o].cls
            /\ heap'[o].kind = heap[o].kind
            /\ Len(heap'[o].fields) = Len(heap[o].fields)
            /\ \A j \in 1..Len(heap[o].fields) :
                 /\ Cardinality(PatchRecords(o, j)) <= 1
                 /\ heap'[o].fields[j] =
                      IF PatchRecords(o, j) = {} THEN heap[o].fields[j]
                      ELSE MapGet(instances,
                                  unresolvedCircular[CHOOSE i \in PatchRecords(o, j) : TRUE].Dependency)
       /\ \A i \in 1..Len(unresolvedCircular) :
            Cardinality({oj \in {<<o, j>> : o \in 1..Len(heap), j \in 1..2} :
                           /\ oj[2] <= Len(heap[oj[1]].fields)
                           /\ PatchedBy(unresolvedCircular[i], oj[1], oj[2])}) <= 1]_vars

\* boot(Root) is over and B, which kept its placeholder for A in two fields,
\* has the cached A in the first and still the placeholder in the second.
C28_Witness ==
  /\ prog = AliasProgram
  /\ BootFulfilled
  /\ MapHas(instances, "A") /\ MapHas(instances, "B")
  /\ LET b == MapGet(instances, "B") IN
       /\ heap[b].fields[1] = MapGet(instances, "A")
       /\ IsTemp(heap[b].fields[2])

\* A asked for B twice while B was under construction: after boot both
\* fields of A hold the cached B.
TwoPlaceholdersPatched ==
  /\ prog.fields["A"] = <<"B", "B">>
  /\ BootFulfilled
  /\ MapHas(instances, "A") /\ MapHas(instances, "B")
  /\ Cardinality(Temps(heap)) = 2
  /\ LET a == MapGet(instances, "A") IN
       heap[a].fields = << MapGet(instances, "B"), MapGet(instances, "B") >>

\* ------------------------------------- identities resolved after boot began
\* Identities cached now that were not in the cache when the boot phase
\* started (first resolved by a use() made from a hook or by the host).
LateKeys ==
  IF BootCalls = {} THEN {}
  ELSE {instances[i].k : i \in 1..Len(instances)} \ UNION {KeysOf(b) : b \in BootCalls}
DisposeHookOf(K) ==
  LET provider == MapGet(instanceProviders, MapGet(instances, K))
  IN IF provider = Undefined THEN NoHook ELSE prog.dispose[heap[provider].cls]
LateOutsideBoot ==
  \A K \in LateKeys :
     /\ \A b \in BootCalls : \A i \in 1..Len(calls[b].signals) :
           calls[b].keys[i] # K
     /\ \A i \in 1..Len(bootedPromises.map) : bootedPromises.map[i].k # K
     /\ \A t \in BootTasks : tasks[t].key # K
     /\ \A i \in WaitsOf("booted") :
           (waits[i].Dependency = K /\ waits[i].bootStarted)
              => Refused(waits[i], "UnusedDependency")
     /\ \A c \in DisposeCalls :
           (K \in KeysOf(c) /\ ~CallbacksLeft(c) /\ DisposeHookOf(K).present)
              => \E t \in TasksOf(c) : tasks[t].phase = "dispose" /\ tasks[t].key = K
DisposeStep ==
  Len(calls') = Len(calls) + 1 /\ calls'[Len(calls')].kind = "dispose"

\* C29: an identity first cached after the boot phase started has no signal
\* in the boot table, no boot hook activation is ever made for it, every
\* booted() asked for it is rejected with UnusedDependency, and once the phase
\* has started no pending-circular record is removed and no field holding a
\* placeholder is overwritten; yet every dispose() lists all identities
\* cached at that moment, and the dispose hook of such an identity is invoked
\* once the callbacks of that dispose() have run.
C29_LateIdentityOutsideBoot ==
  [][ /\ LateOutsideBoot /\ LateOutsideBoot'
      /\ BootCalls # {} =>
            /\ Len(unresolvedCircular') >= Len(unresolvedCircular)
            /\ SubSeq(unresolvedCircular', 1, Len(unresolvedCircular)) = unresolvedCircular
            /\ \A o \in 1..Len(heap) : \A j \in 1..Len(heap[o].fields) :
                  IsTemp(heap[o].fields[j]) => heap'[o].fields[j] = heap[o].fields[j]
      /\ DisposeStep =>
            \A i \in 1..Len(instances) :
               \E j \in 1..Len(calls'[Len(calls')].keys) :
                  calls'[Len(calls')].keys[j] = instances[i].k
    ]_vars

\* Root's boot hook called this.use(A): A was constructed in a cycle with B
\* and cached, booted(A) was refused, B still holds the placeholder, and the
\* dispose() made afterwards has run A's dispose hook to its end.
C29_Witness ==
  /\ prog = LazyProgram
  /\ "A" \in LateKeys
  /\ \E i \in WaitsOf("booted") :
        waits[i].Dependency = "A" /\ waits[i].cached /\ Refused(waits[i], "UnusedDependency")
  /\ Len(unresolvedCircular) = 1 /\ unresolvedCircular[1].Dependency = "A"
  /\ MapHas(instances, "B")
  /\ heap[MapGet(instances, "B")].fields = << unresolvedCircular[1].temp >>
  /\ \E t \in 1..Len(tasks) :
        tasks[t].phase = "dispose" /\ tasks[t].key = "A" /\ tasks[t].state = "done"
  /\ order = << 3 >>

\* --------------------------------------------------- dispose during boot
\* A boot hook has been invoked and has not ended, or is still to be invoked.
BootPending ==
  \/ \E t \in BootTasks : ~Ended(t)
  \/ \E i \in 1..Len(queue) : queue[i].kind = "bootcb"
DisposeCallbackNext == MicroTurn /\ Head(queue).kind = "disposecb"

\* C30: a dispose() step is the same whether or not boot hooks are pending:
\* it returns a promise without an error, leaves every hook activation, the
\* boot table and the jobs already queued as they are, and appends one
\* callback per cached identity, in cache order, to the microtask queue; and
\* when such a callback is at the head of the queue the next step invokes
\* the dispose hook of its instance, whatever the state of the boot hooks.
C30_DisposeIgnoresBoot ==
  [][ /\ DisposeStep =>
           LET n == Len(instances)  c == Len(calls') IN
           /\ calls'[c].err = NoError /\ hostRet'.err = NoError
           /\ proms'[calls'[c].prom].state = "pending"
           /\ calls'[c].keys = [i \in 1..n |-> instances[i].k]
           /\ tasks' = tasks /\ bootedPromises' = bootedPromises /\ finalized' = finalized
           /\ Len(queue') >= Len(queue) + n
           /\ SubSeq(queue', 1, Len(queue)) = queue
           /\ \A i \in 1..n :
                 LET j == queue'[Len(queue) + i] IN
                 /\ j.kind = "disposecb" /\ j.val = c
                 /\ j.cls = instances[i].k /\ j.a = instances[i].v
                 /\ j.b = calls'[c].signals[i]
      /\ DisposeCallbackNext =>
           LET j == Head(queue)
               provider == MapGet(instanceProviders, j.a)
           IN (provider # Undefined /\ prog.dispose[heap[provider].cls].present) =>
                 /\ Len(tasks') = Len(tasks) + 1
                 /\ tasks'[Len(tasks')].phase = "dispose"
                 /\ tasks'[Len(tasks')].key = j.cls
                 /\ tasks'[Len(tasks')].obj = provider
                 /\ ctl' # << >>
    ]_vars

\* The README program with the SIGINT handler installed: dispose() was called
\* from a later macrotask while Logger's boot hook waits for its timer, and
\* the dispose hooks of Logger and Counter have started although neither boot
\* hook has ended.
C30_Witness ==
  /\ prog = TimerProgram
  /\ Len(applied) = 1 /\ applied[1] = Invoked("sigintHandler", <<ThisContainer>>)
  /\ \A K \in {"D", "Root"} :
        \E t, u \in 1..Len(tasks) :
           /\ tasks[t].phase = "boot" /\ tasks[t].key = K /\ tasks[t].state = "suspended"
           /\ tasks[u].phase = "dispose" /\ tasks[u].key = K /\ tasks[u].obj = tasks[t].obj
           /\ t < u
  /\ \E c \in DisposeCalls : ~CallbacksLeft(c) /\ CallState(c) = "pending"
  /\ \E b \in BootCalls : CallState(b) = "pending"

\* ------------------------------------------------------- repeated dispose
\* The dispose hook activations made for identity K, over all calls.
DisposeRuns(K) == {t \in 1..Len(tasks) : tasks[t].phase = "dispose" /\ tasks[t].key = K}
\* The dispose() calls whose callback for K has run.
DisposeCallsRun(K) ==
  {c \in DisposeCalls :
     /\ K \in KeysOf(c)
     /\ \A i \in 1..Len(queue) :
           ~(queue[i].kind = "disposecb" /\ queue[i].val = c /\ queue[i].cls = K)}
RepeatedDisposeState ==
  /\ \A c, d \in DisposeCalls :
        c < d => /\ KeysOf(c) \subseteq KeysOf(d)
                 /\ \A i \in 1..Len(calls[c].signals) : \A j \in 1..Len(calls[d].signals) :
                       calls[c].signals[i] # calls[d].signals[j]
  /\ \A i \in 1..Len(instances) :
        LET K == instances[i].k IN
        HookFor(K, "dispose").present =>
           Cardinality(DisposeRuns(K)) = Cardinality(DisposeCallsRun(K))
  /\ \A i \in WaitsOf("disposed") :
        LET w == waits[i] IN
        (w.call # 0 /\ KeyIndex(w.call, w.Dependency) # {}) =>
           /\ ReturnedSignal(w, w.call)
           /\ \A c \in DisposeCalls : c # w.call => ~ReturnedSignal(w, c)

\* C31: every dispose() call, the first as well as any later one, is
\* accepted, makes a signal that did not exist before for each cached
\* identity, replaces the dispose table with these signals and queues one
\* callback per identity; in every state the number of dispose hook
\* activations of a cached identity equals the number of dispose() calls
\* whose callback for it has run, and disposed(D) returns the signal made by
\* the latest dispose() call and no earlier one.
C31_DisposeRepeats ==
  [][ /\ RepeatedDisposeState /\ RepeatedDisposeState'
      /\ DisposeStep =>
           LET n == Len(instances)  c == Len(calls') IN
           /\ calls'[c].err = NoError
           /\ Len(calls'[c].signals) = n /\ Len(calls'[c].keys) = n
           /\ disposedPromises'.present /\ Len(disposedPromises'.map) = n
           /\ \A i \in 1..n :
                 /\ calls'[c].keys[i] = instances[i].k
                 /\ calls'[c].signals[i] > Len(proms)
                 /\ proms'[calls'[c].signals[i]].state = "pending"
                 /\ disposedPromises'.map[i] = Entry(instances[i].k, calls'[c].signals[i])
                 /\ \E j \in (Len(queue) + 1)..Len(queue') :
                       /\ queue'[j].kind = "disposecb" /\ queue'[j].val = c
                       /\ queue'[j].cls = instances[i].k
    ]_vars

\* The dispose-order test with dispose() awaited twice: both calls are
\* fulfilled, each hook ran twice (order 1, 2, 3, 4 twice), and the root's
\* second disposed(D) got the signal of the second call.
C31_Witness ==
  /\ prog = DisposeOrderProgram
  /\ order = << 1, 2, 3, 4, 1, 2, 3, 4 >>
  /\ \E c, d \in DisposeCalls :
        /\ c < d /\ CallState(c) = "fulfilled" /\ CallState(d) = "fulfilled"
        /\ calls[d].keys = << "D", "Root" >>
        /\ \E i \in WaitsOf("disposed") :
              /\ waits[i].call = d /\ waits[i].Dependency = "D"
              /\ waits[i].prom = calls[d].signals[1]
        /\ \E i \in WaitsOf("disposed") : waits[i].call = c /\ waits[i].prom = calls[c].signals[1]
  /\ Cardinality(DisposeRuns("D")) = 2 /\ Cardinality(DisposeRuns("Root")) = 2
  /\ \A t \in DisposeRuns("D") \cup DisposeRuns("Root") : tasks[t].state = "done"

\* ------------------------------------------------- waiting for a failed hook
FailedHooks == {t \in 1..Len(tasks) : tasks[t].state = "failed"}
WaitOpOf(phase) == IF phase = "boot" THEN "booted" ELSE "disposed"
\* The booted()/disposed() calls asking for the identity of activation t in
\* the phase of t.
WaitsOn(t) ==
  {i \in 1..Len(waits) :
     waits[i].op = WaitOpOf(tasks[t].phase) /\ waits[i].Dependency = tasks[t].key}
\* Those that were answered with the signal made for t.
SignalWaitsOn(t) == {i \in WaitsOn(t) : waits[i].err = NoError /\ waits[i].prom = tasks[t].q}

\* C32 (as stated): when the boot (dispose) hook of D has failed, every
\* promise that booted(D) (disposed(D)) has returned is rejected with D's
\* error once the pending jobs have run.
C32_EveryWaitRejected ==
  \A t \in FailedHooks : \A i \in WaitsOn(t) :
     Idle => /\ proms[waits[i].prom].state = "rejected"
             /\ proms[waits[i].prom].err = tasks[t].err

\* C32 (amended): when the hook invoked for D in a phase has failed, D's
\* signal of that phase call is never fulfilled and is rejected with D's
\* error once the pending jobs have run; this is the promise of every
\* booted(D) (disposed(D)) that was answered from the table of that call; a
\* hook that awaits it never runs the code after the await and, once the
\* pending jobs have run, has failed at that await with D's error.
C32_SignalWaitsRejected ==
  \A t \in FailedHooks :
     /\ proms[tasks[t].q].state # "fulfilled"
     /\ Idle => proms[tasks[t].q].state = "rejected" /\ proms[tasks[t].q].err = tasks[t].err
     /\ \A i \in WaitsOn(t) :
           (waits[i].err = NoError /\ ReturnedSignal(waits[i], tasks[t].call))
              => i \in SignalWaitsOn(t)
     /\ \A u \in 1..Len(tasks) : \A k \in 1..Len(tasks[u].awaited) :
           tasks[u].awaited[k].prom = tasks[t].q =>
              /\ k = Len(tasks[u].awaited)
              /\ tasks[u].state \in {"suspended", "failed"}
              /\ tasks[u].pc = tasks[u].awaited[k].pc + 1
              /\ tasks[u].state = "failed" => tasks[u].err = tasks[t].err
              /\ Idle => tasks[u].state = "failed"

\* D's boot hook threw E1 after its first await; the root's hook, which had
\* pushed 2 and awaited booted(D), has failed with E1 without pushing 4, and
\* boot is rejected with E1.
C32_Witness ==
  /\ prog = FailProgram
  /\ order = << 1, 2 >>
  /\ \E t, u \in BootTasks :
        /\ tasks[t].key = "D" /\ tasks[t].state = "failed" /\ tasks[t].err = "E1"
        /\ tasks[u].key = "Root" /\ tasks[u].state = "failed" /\ tasks[u].err = "E1"
        /\ SignalWaitsOn(t) # {}
        /\ tasks[u].awaited = << [pc |-> 2, prom |-> tasks[t].q] >>
        /\ proms[tasks[t].q].state = "rejected" /\ proms[tasks[t].q].err = "E1"
  /\ \E b \in BootCalls : CallState(b) = "rejected" /\ CallErr(b) = "E1"
  /\ Idle

\* The same in the dispose phase.
DisposeWaiterFailed ==
  /\ prog = FailDisposeProgram
  /\ order = << 1, 2 >>
  /\ \E t, u \in 1..Len(tasks) :
        /\ tasks[t].phase = "dispose" /\ tasks[t].key = "D" /\ tasks[t].err = "E1"
        /\ tasks[u].phase = "dispose" /\ tasks[u].key = "Root"
        /\ tasks[u].state = "failed" /\ tasks[u].err = "E1"
        /\ tasks[u].awaited = << [pc |-> 2, prom |-> tasks[t].q] >>
  /\ \E c \in DisposeCalls : CallState(c) = "rejected" /\ CallErr(c) = "E1"
  /\ Idle

\* ------------------------------------------------ construction that throws
ConstructionErrors == {"NotImplemented", "RangeError"}
\* The boot calls that were accepted and whose root resolution threw.
ThrownBoots ==
  {c \in 1..Len(calls) :
     /\ calls[c].kind = "boot" /\ calls[c].err = NoError
     /\ CallState(c) = "rejected" /\ calls[c].keys = << >>}
\* The step in which an exception leaves the root resolution of boot().
BootThrows ==
  /\ ctl # << >> /\ Base.kind = "boot" /\ ctl' = << >>
  /\ proms'[Base.obj].state = "rejected"
\* Identities whose construction is in progress.
Constructing == {ctl[i].dep : i \in {j \in 1..Len(ctl) : ctl[j].kind = "ctor"}}
AfterThrownBoot ==
  \A c \in ThrownBoots :
     /\ CallErr(c) \in ConstructionErrors
     /\ finalized
     /\ BootTasks = {} /\ ~bootedPromises.present
     /\ ~MapHas(instances, calls[c].root)
     /\ \A i \in 1..Len(instances) : prog.provide[Implementation(instances[i].k)] # "throw"
     /\ \A b \in 1..Len(calls) :
           (calls[b].kind = "boot" /\ b # c) => calls[b].err = "AlreadyFinalized"

\* C33: when an exception leaves the root resolution of boot(Root), the boot
\* promise is rejected with that error in the same step, and neither the
\* identity whose provide() threw nor any identity whose construction was in
\* progress is in the cache; from then on no boot hook activation exists, the
\* boot table is absent, the container is finalized and every other boot
\* call was or is rejected with AlreadyFinalized.
C33_ThrowingConstruction ==
  [][ /\ AfterThrownBoot /\ AfterThrownBoot'
      /\ BootThrows =>
           /\ proms'[Base.obj].err \in ConstructionErrors
           /\ (AtProvide /\ prog.provide[Top.cls] = "throw") =>
                 proms'[Base.obj].err = "NotImplemented"
           /\ instances' = instances
           /\ \A K \in Constructing : ~MapHas(instances', K)
           /\ tasks' = tasks /\ bootedPromises' = bootedPromises
    ]_vars

====
